---- MODULE Spec2Model ----
(***************************************************************************)
(* Debug-event capture pipeline of webxexpert-devtools:                    *)
(*   - content.js      Instrumentation Agent (page console errors)         *)
(*   - part_003        background service worker: Network Interceptor and  *)
(*                     the sending side of the Bridge Transport            *)
(*   - part_004        claude-console-bridge: Aggregator / Store           *)
(* One set of variables; one specification per component, so that each     *)
(* component is explored with the inputs its claims are about.             *)
(***************************************************************************)
EXTENDS Integers, Sequences, FiniteSets, TLC

(***************************************************************************)
(* Bounds of the model (not program constants).                            *)
(***************************************************************************)
MaxEvents == 3
MaxPipeEvents == 3
MaxCaptures == 2
MaxCmds == 1
MaxDrops == 1
MaxTicks == 2

\* Every socket but the first is created by a SET_BRIDGE_PORT command or after
\* the close of an earlier one, so this many can be alive at once.
MaxSockets == MaxCmds + 1

(***************************************************************************)
(* Program constants.                                                      *)
(***************************************************************************)
BG_MAX_NETWORK == 100
BG_MAX_ERRORS == 100
AGG_MAX_ERRORS == 100
AGG_MAX_NETWORK == 200
MAX_ERRORS == 100
MSG_KEY_LEN == 100
DEDUP_WINDOW_MS == 1000
BODY_LIMIT == 5000

(***************************************************************************)
(* Values and input sets.                                                  *)
(***************************************************************************)
\* undefined and null are records, so that they compare with every other
\* value of the model; a tab id that is undefined is the string NoTab.
Undefined == [js |-> "undefined"]
Null == [js |-> "null"]
NoTab == "undefined"
Timestamp == [js |-> "Date"]

Tabs == {"t1", "t2"}
\* A tab the browser has open, with no event queued for the service worker.
OpenTab == [closed |-> FALSE, pending |-> {}]
RequestIds == {"r1", "r2"}
ResourceTypes == {"XHR", "Image"}
Statuses == {200, 500}

\* A URL is modelled by the features shouldExcludeRequest tests: whether it
\* starts with "data:", whether it contains "base64", and the file extension
\* that stands right before "?" or the end of the URL ("" when none).
UrlApi == [path |-> "/api/users", dataScheme |-> FALSE, base64 |-> FALSE, ext |-> ""]
UrlPng == [path |-> "/logo.png", dataScheme |-> FALSE, base64 |-> FALSE, ext |-> "png"]
Urls == {UrlApi, UrlPng}

FontExts == {"woff", "woff2", "ttf", "eot", "otf"}
ImageExts == {"png", "jpg", "jpeg", "gif", "svg", "webp", "ico", "bmp", "avif"}

Min(a, b) == IF a < b THEN a ELSE b
Max(a, b) == IF a > b THEN a ELSE b

Range(s) == {s[i] : i \in 1..Len(s)}

\* The last n elements of s (all of s when it is shorter).
LastN(s, n) == SubSeq(s, Max(1, Len(s) - n + 1), Len(s))

\* JavaScript Map: a function whose domain is the set of keys.
MapHas(m, k) == k \in DOMAIN m
MapGetOr(m, k, d) == IF k \in DOMAIN m THEN m[k] ELSE d
MapSet(m, k, v) == [x \in (DOMAIN m) \cup {k} |-> IF x = k THEN v ELSE m[x]]
MapDelete(m, k) == [x \in (DOMAIN m) \ {k} |-> m[x]]
EmptyMap == [x \in {} |-> Undefined]

VARIABLES
  \* ---- background service worker (part_003) ----
  allErrors,              \* Map tabId -> errors[]
  allNetworkRequests,     \* Map tabId -> requests[]
  pendingRequests,        \* Map requestId -> request
  wsConnection,           \* 0 (null) or the id of a socket
  wsReconnectTimer,       \* 0 (null) or 1 (the id setTimeout returned)
  bridgePort,
  isCapturing,            \* Map tabId -> boolean
  excludedResourceTypes,
  excludedPatterns,
  \* ---- browser environment of the service worker ----
  initDone,               \* the chrome.storage.local.get callback of start-up has run
  sockets,                \* socket id -> [readyState, port]; "NONE": no such socket
  inflight,               \* socket id -> messages sent and not yet received
  timers,                 \* number of reconnect setTimeout callbacks not yet fired
  cmdsLeft,               \* SET_BRIDGE_PORT commands left
  dropsLeft,              \* connection failures left while the aggregator listens
  storage,                \* chrome.storage.local
  debuggerState,          \* tabId -> "detached" | "attached" | "enabled"
  captureCalls,           \* startNetworkCapture calls waiting for the debugger
  pendingBody,            \* Network.getResponseBody commands in flight
  reachable,              \* the aggregator listens on the bridge port
  lastReply,              \* the last sendResponse of chrome.runtime.onMessage
  \* ---- aggregator (part_004) ----
  capturedData,
  homeFile,               \* DATA_FILE
  projectFile,            \* PROJECT_DATA_FILE
  httpResponse,
  \* ---- Instrumentation Agent (content.js) ----
  errors,
  now,                    \* Date.now(), in ms
  ticksLeft,              \* clock steps left
  contentReply,           \* the last sendResponse of the content script
  importTimers,           \* setTimeout(importEarlyErrors, ...) callbacks not yet fired
  earlyVisible,           \* the content script's window.__CLAUDE_EARLY_ERRORS__ is the
                          \* array of inject.js
  \* ---- Early Capture Agent (inject.js) and the page ----
  earlyErrors,            \* the array captureError pushes to
  posted,                 \* window.postMessage messages not yet dispatched
  pageWorld,              \* the page's window and console as inject.js leaves them
  isolatedWorld,          \* the content script's window and its listeners
  \* ---- VS Code extension (part_002) and the processes it spawns ----
  bridgeProcess,          \* 0 (null) or the id of a spawned child process
  processes,              \* process id -> [state, killed]
  startCalls,             \* startBridgeBackground calls waiting for checkConsoleBridge
  \* ---- history (not program state) ----
  nextUid,                \* identity of the next event object created
  budget,                 \* environment inputs left
  netLog,                 \* tabId -> insertions into the tab's array since it was created
  aggNetLog,              \* insertions into capturedData.network since the last reset
  aggErrLog,              \* insertions into capturedData.errors since the last reset
  captureLog,             \* addError calls: [key, at, uid]
  unsent,                 \* uids of events retained while the bridge was not connected
  delivered,              \* uids of the events the aggregator received, in order
  protoLog,               \* lifecycle events the debugger protocol delivered
  tabState,               \* tabId -> [closed, pending]: the browser's tab and its queued events
  attachLog,              \* tabId -> attach commands issued since the tab was detached
  lastOp                  \* the handler that ran last, with its input

bgVars == <<allErrors, allNetworkRequests, pendingRequests, isCapturing,
            excludedResourceTypes, excludedPatterns, tabState,
            debuggerState, captureCalls, attachLog, pendingBody,
            lastReply, netLog, protoLog>>
bridgeVars == <<wsConnection, wsReconnectTimer, bridgePort, initDone, sockets, timers,
                storage, reachable, cmdsLeft, dropsLeft>>
aggVars == <<capturedData, homeFile, projectFile, httpResponse, aggNetLog, aggErrLog>>
pageVars == <<importTimers, earlyVisible, earlyErrors, posted, pageWorld, isolatedWorld>>
contentVars == <<errors, now, ticksLeft, contentReply, captureLog, pageVars>>
histVars == <<nextUid, budget, unsent, delivered, lastOp>>
extVars == <<bridgeProcess, processes, startCalls>>
vars == <<bgVars, bridgeVars, inflight, aggVars, contentVars, extVars, histVars>>

(***************************************************************************)
(* VS Code extension (part_002): the child processes it can spawn.  A      *)
(* process is "unborn" before spawn, then "starting" (alive, not yet       *)
(* listening), "listening" (alive, answering GET /data), "exited" (gone,   *)
(* its 'exit' event not yet delivered) and "done".                         *)
(***************************************************************************)
MaxStarts == 3
Pids == 1..MaxStarts
NoProcess == 0
Unborn == [state |-> "unborn", killed |-> FALSE]

\* MaxLoads bounds how often one world is handed the same script.
MaxLoads == 2

\* A world before its script ran, and after it ran once.  injected is the
\* flag window.__CLAUDE_PAGE_INJECTED__ (inject.js:7-8) of the page, or
\* window.__CLAUDE_CONSOLE_INJECTED__ (content.js:8-9) of the content
\* script's world; wrappers counts the functions inject.js has put in front
\* of console.error, listeners the 'message' listeners of content.js;
\* scripts counts the script elements for inject.js that were appended and
\* have not run yet; runs counts the executions of the script, those that
\* returned at the flag included.
FreshPage == [injected |-> FALSE, wrappers |-> 0, scripts |-> 0, runs |-> 0]
FreshIsolated == [injected |-> FALSE, listeners |-> 0, runs |-> 0]

\* Both scripts have run once, as the manifest and injectPageScript
\* (content.js:11-18) make them.
InitWorlds ==
  /\ pageWorld = [injected |-> TRUE, wrappers |-> 1, scripts |-> 0, runs |-> 1]
  /\ isolatedWorld = [injected |-> TRUE, listeners |-> 1, runs |-> 1]

\* activate has run: let bridgeProcess = null, nothing spawned, no call.
InitExtension ==
  /\ bridgeProcess = NoProcess
  /\ processes = [p \in Pids |-> Unborn]
  /\ startCalls = {}

(***************************************************************************)
(* Background service worker: exclusion filter (part_003:13-66).           *)
(***************************************************************************)
DefaultExcludedResourceTypes ==
  [k \in {"Font", "Image", "Stylesheet", "Script", "Media", "Other"} |->
     k \in {"Font", "Image", "Media"}]

DefaultExcludedPatterns ==
  [base64 |-> TRUE, fonts |-> TRUE, images |-> TRUE, sourcemaps |-> TRUE]

\* excludedResourceTypes[resourceType] is undefined (falsy) for a type the
\* table does not list; a missing url is never excluded by a pattern.
shouldExcludeRequest(resourceType, url) ==
  IF MapGetOr(excludedResourceTypes, resourceType, FALSE) THEN TRUE
  ELSE IF url = Undefined THEN FALSE
  ELSE IF excludedPatterns.base64 /\ (url.dataScheme \/ url.base64) THEN TRUE
  ELSE IF excludedPatterns.fonts /\ url.ext \in FontExts THEN TRUE
  ELSE IF excludedPatterns.images /\ url.ext \in ImageExts THEN TRUE
  ELSE IF excludedPatterns.sourcemaps /\ url.ext = "map" THEN TRUE
  ELSE FALSE

(***************************************************************************)
(* Bridge, sending side: sendToBridge (part_003:286-290).                  *)
(***************************************************************************)
\* wsConnection && wsConnection.readyState === WebSocket.OPEN
BridgeOpen == wsConnection # 0 /\ sockets[wsConnection].readyState = "OPEN"

\* Variant of sendToBridge without the readyState test.
sendToBridgeNoStateCheck(message) ==
  IF wsConnection # 0
  THEN [inflight EXCEPT ![wsConnection] = Append(@, message)]
  ELSE inflight

\* Variant of sendToBridge on a transport that puts the newest message first.
sendToBridgeOvertaking(message) ==
  IF BridgeOpen
  THEN [inflight EXCEPT ![wsConnection] = <<message>> \o @]
  ELSE inflight

\* The value of inflight after sendToBridge(message).
sendToBridge(message) ==
  IF BridgeOpen
  THEN [inflight EXCEPT ![wsConnection] = Append(@, message)]
  ELSE inflight

\* History: the event uid was retained while the bridge was not connected.
NoteUnsent(uid) == IF BridgeOpen THEN unsent ELSE unsent \cup {uid}

(***************************************************************************)
(* Background service worker: the per-tab arrays.                          *)
(***************************************************************************)
\* requests.push(request); if (requests.length > 100) requests.shift();
BgPushRequest(requests, request) ==
  LET pushed == Append(requests, request)
  IN IF Len(pushed) > BG_MAX_NETWORK THEN Tail(pushed) ELSE pushed

\* Variant of BgPushResponse that loses the response.
BgPushResponseDropped(requests, response) == requests

\* requests.push(response); if (requests.length > 100) requests.shift();
BgPushResponse(requests, response) ==
  LET pushed == Append(requests, response)
  IN IF Len(pushed) > BG_MAX_NETWORK THEN Tail(pushed) ELSE pushed

\* requests.push(failure);   -- no length check in this branch
BgPushFailure(requests, failure) == Append(requests, failure)

\* errors.push(message.error); if (errors.length > 100) errors.shift();
BgPushError(errs, error) ==
  LET pushed == Append(errs, error)
  IN IF Len(pushed) > BG_MAX_ERRORS THEN Tail(pushed) ELSE pushed

\* A JavaScript string, by its character codes.
Str(text) == [js |-> "string", text |-> text]

\* '... [truncated]'
TruncationMarker == <<46, 46, 46, 32, 91, 116, 114, 117, 110, 99, 97, 116, 101, 100, 93>>

\* Variant of truncateBody that keeps the end of a long body.
truncateBodyKeepEnd(body) ==
  IF body = [js |-> "undefined"] \/ body.text = <<>> THEN [js |-> "null"]
  ELSE IF Len(body.text) > 5000
  THEN [js |-> "string",
        text |-> SubSeq(body.text, Len(body.text) - 4999, Len(body.text))
                 \o <<46, 46, 46, 32, 91, 116, 114, 117, 110, 99, 97, 116, 101, 100, 93>>]
  ELSE body

\* function truncateBody(body) (part_003:218-224); body is a string or
\* undefined.
truncateBody(body) ==
  IF body = Undefined \/ body.text = <<>> THEN Null
  ELSE IF Len(body.text) > BODY_LIMIT
  THEN Str(SubSeq(body.text, 1, BODY_LIMIT) \o TruncationMarker)
  ELSE body

\* Bodies the debugger returns: "{}", 5000 times "a", 5000 times "a" and
\* "b", the empty string, and "QQ==" (the base64 form of "A").
TextShort == Str(<<123, 125>>)
TextAtLimit == Str([i \in 1..BODY_LIMIT |-> 97])
TextOverLimit == Str([i \in 1..(BODY_LIMIT + 1) |-> IF i <= BODY_LIMIT THEN 97 ELSE 98])
TextEmpty == Str(<<>>)
TextBase64 == Str(<<81, 81, 61, 61>>)
BodyResults == {[base64Encoded |-> FALSE, body |-> TextShort],
                [base64Encoded |-> FALSE, body |-> TextAtLimit],
                [base64Encoded |-> FALSE, body |-> TextOverLimit],
                [base64Encoded |-> FALSE, body |-> TextEmpty],
                [base64Encoded |-> TRUE, body |-> TextBase64]}

\* The array with the body of the response object uid set (the object is
\* shared between the array and the pending getResponseBody call).
SetBody(requests, uid, body) ==
  [i \in 1..Len(requests) |->
     IF requests[i].uid = uid /\ requests[i].type = "response"
     THEN [requests[i] EXCEPT !.body = body]
     ELSE requests[i]]

Bump(f, k) == [f EXCEPT ![k] = @ + 1]

(***************************************************************************)
(* chrome.debugger.onEvent listener (part_003:98-198).  The listener       *)
(* creates the tab's array before it looks at the method.                  *)
(***************************************************************************)
OnRequestWillBeSent(tabId, requestId, resourceType, url) ==
  /\ budget > 0
  /\ debuggerState[tabId] = "enabled"
  /\ LET requests == MapGetOr(allNetworkRequests, tabId, <<>>)
         log == MapGetOr(netLog, tabId, <<>>)
         excluded == shouldExcludeRequest(resourceType, url)
         request == [id |-> requestId, type |-> "request", uid |-> nextUid,
                     url |-> url, resourceType |-> resourceType]
     IN /\ IF excluded
           THEN /\ allNetworkRequests' = MapSet(allNetworkRequests, tabId, requests)
                /\ netLog' = MapSet(netLog, tabId, log)
                /\ UNCHANGED <<pendingRequests, inflight, unsent, nextUid>>
           ELSE /\ pendingRequests' = MapSet(pendingRequests, requestId, request)
                /\ allNetworkRequests' =
                     MapSet(allNetworkRequests, tabId, BgPushRequest(requests, request))
                /\ netLog' = MapSet(netLog, tabId, Append(log, request))
                /\ inflight' = sendToBridge([type |-> "network_request",
                                             tabId |-> tabId, data |-> request])
                /\ unsent' = NoteUnsent(nextUid)
                /\ nextUid' = nextUid + 1
        /\ lastOp' = [op |-> "requestWillBeSent", tabId |-> tabId, id |-> requestId,
                      uid |-> nextUid, excluded |-> excluded, known |-> TRUE,
                      open |-> BridgeOpen]
  /\ budget' = budget - 1
  /\ protoLog' = Bump(protoLog, <<requestId, "request">>)
  /\ UNCHANGED <<allErrors, isCapturing, excludedResourceTypes, excludedPatterns, tabState, extVars,
                 debuggerState, captureCalls, attachLog, pendingBody, lastReply>>
  /\ UNCHANGED <<bridgeVars, aggVars, contentVars, delivered>>

OnResponseReceived(tabId, requestId, resourceType, url, status) ==
  /\ budget > 0
  /\ debuggerState[tabId] = "enabled"
  /\ LET requests == MapGetOr(allNetworkRequests, tabId, <<>>)
         log == MapGetOr(netLog, tabId, <<>>)
         known == MapHas(pendingRequests, requestId)
         excluded == ~known /\ shouldExcludeRequest(resourceType, url)
         response == [id |-> requestId, type |-> "response", uid |-> nextUid,
                      url |-> url, status |-> status, body |-> Undefined]
     IN /\ IF excluded
           THEN /\ allNetworkRequests' = MapSet(allNetworkRequests, tabId, requests)
                /\ netLog' = MapSet(netLog, tabId, log)
                /\ UNCHANGED <<pendingBody, inflight, unsent, nextUid>>
           ELSE /\ pendingBody' = pendingBody \cup {nextUid}
                /\ allNetworkRequests' =
                     MapSet(allNetworkRequests, tabId, BgPushResponse(requests, response))
                /\ netLog' = MapSet(netLog, tabId, Append(log, response))
                /\ inflight' = sendToBridge([type |-> "network_response",
                                             tabId |-> tabId, data |-> response])
                /\ unsent' = NoteUnsent(nextUid)
                /\ nextUid' = nextUid + 1
        /\ lastOp' = [op |-> "responseReceived", tabId |-> tabId, id |-> requestId,
                      uid |-> nextUid, excluded |-> excluded, known |-> known,
                      open |-> BridgeOpen]
  /\ budget' = budget - 1
  /\ protoLog' = Bump(protoLog, <<requestId, "end">>)
  /\ UNCHANGED <<allErrors, pendingRequests, isCapturing, excludedResourceTypes,
                 excludedPatterns, tabState, extVars, debuggerState, captureCalls, attachLog, lastReply>>
  /\ UNCHANGED <<bridgeVars, aggVars, contentVars, delivered>>

OnLoadingFailed(tabId, requestId) ==
  /\ budget > 0
  /\ debuggerState[tabId] = "enabled"
  /\ LET requests == MapGetOr(allNetworkRequests, tabId, <<>>)
         log == MapGetOr(netLog, tabId, <<>>)
         failure == [id |-> requestId, type |-> "failure", uid |-> nextUid]
     IN /\ allNetworkRequests' =
             MapSet(allNetworkRequests, tabId, BgPushFailure(requests, failure))
        /\ netLog' = MapSet(netLog, tabId, Append(log, failure))
        /\ inflight' = sendToBridge([type |-> "network_failure",
                                     tabId |-> tabId, data |-> failure])
        /\ unsent' = NoteUnsent(nextUid)
        /\ lastOp' = [op |-> "loadingFailed", tabId |-> tabId, id |-> requestId,
                      uid |-> nextUid, excluded |-> FALSE,
                      known |-> MapHas(pendingRequests, requestId), open |-> BridgeOpen]
  /\ nextUid' = nextUid + 1
  /\ budget' = budget - 1
  /\ protoLog' = Bump(protoLog, <<requestId, "end">>)
  /\ UNCHANGED <<allErrors, pendingRequests, isCapturing, excludedResourceTypes,
                 excludedPatterns, tabState, extVars, debuggerState, captureCalls, attachLog, pendingBody, lastReply>>
  /\ UNCHANGED <<bridgeVars, aggVars, contentVars, delivered>>

\* Any other method of the Network domain (dataReceived, loadingFinished, ...):
\* it creates the tab's array; on a tab that has one it changes nothing.
OnOtherDebuggerEvent(tabId) ==
  /\ debuggerState[tabId] = "enabled"
  /\ ~MapHas(allNetworkRequests, tabId)
  /\ allNetworkRequests' = MapSet(allNetworkRequests, tabId, <<>>)
  /\ netLog' = MapSet(netLog, tabId, <<>>)
  /\ lastOp' = [op |-> "otherDebuggerEvent", tabId |-> tabId]
  /\ UNCHANGED <<allErrors, pendingRequests, isCapturing, excludedResourceTypes,
                 excludedPatterns, tabState, extVars,
                 debuggerState, captureCalls, attachLog, pendingBody, lastReply, protoLog>>
  /\ UNCHANGED <<bridgeVars, inflight, aggVars, contentVars,
                 nextUid, budget, unsent, delivered>>

(***************************************************************************)
(* getResponseBody (part_003:200-216): the command completes later and     *)
(* writes the body into the response object it was given, or is rejected.  *)
(***************************************************************************)
GetResponseBodyResolved(uid, result) ==
  /\ uid \in pendingBody
  /\ pendingBody' = pendingBody \ {uid}
  /\ LET body == IF result.base64Encoded
                 THEN [base64Chars |-> IF result.body = Undefined THEN 0
                                       ELSE Len(result.body.text)]
                 ELSE truncateBody(result.body)
     IN allNetworkRequests' =
          [t \in DOMAIN allNetworkRequests |-> SetBody(allNetworkRequests[t], uid, body)]
  /\ lastOp' = [op |-> "getResponseBody", uid |-> uid, ok |-> TRUE, result |-> result]
  /\ UNCHANGED <<allErrors, pendingRequests, isCapturing, excludedResourceTypes,
                 excludedPatterns, tabState, extVars,
                 debuggerState, captureCalls, attachLog, lastReply, netLog, protoLog>>
  /\ UNCHANGED <<bridgeVars, inflight, aggVars, contentVars,
                 nextUid, budget, unsent, delivered>>

GetResponseBodyRejected(uid) ==
  /\ uid \in pendingBody
  /\ pendingBody' = pendingBody \ {uid}
  /\ lastOp' = [op |-> "getResponseBody", uid |-> uid, ok |-> FALSE]
  /\ UNCHANGED <<allErrors, allNetworkRequests, pendingRequests, isCapturing,
                 excludedResourceTypes, excludedPatterns, tabState, extVars,
                 debuggerState, captureCalls, attachLog, lastReply,
                 netLog, protoLog>>
  /\ UNCHANGED <<bridgeVars, inflight, aggVars, contentVars,
                 nextUid, budget, unsent, delivered>>

(***************************************************************************)
(* Bridge, sending side: connectToBridge and the socket handlers           *)
(* (part_003:248-284).  A socket whose close event has been handled is     *)
(* referenced by nothing and leaves the model (readyState "NONE").         *)
(***************************************************************************)
Ports == {9876, 8888}
SocketIds == 1..MaxSockets
NoSocket == [readyState |-> "NONE", port |-> 0]
Live(s) == sockets[s].readyState \in {"CONNECTING", "OPEN"}
FreeSlot(socks) == CHOOSE i \in SocketIds :
                     /\ socks[i].readyState = "NONE"
                     /\ \A j \in SocketIds : socks[j].readyState = "NONE" => i <= j
HasFreeSlot(socks) == \E i \in SocketIds : socks[i].readyState = "NONE"

\* connectToBridge() on the sockets socks with wsConnection = conn: the
\* resulting sockets and wsConnection.  new WebSocket(url) does not throw for
\* a numeric port; a refused connection shows as a later close event.
connectToBridge(socks, conn, port) ==
  IF conn # 0 /\ socks[conn].readyState = "OPEN"
  THEN [sockets |-> socks, wsConnection |-> conn]
  ELSE LET s == FreeSlot(socks)
       IN [sockets |-> [socks EXCEPT ![s] = [readyState |-> "CONNECTING", port |-> port]],
           wsConnection |-> s]

\* connectToBridge creates a socket in this case and needs a slot for it.
NeedsSlot(socks, conn) == ~(conn # 0 /\ socks[conn].readyState = "OPEN")

\* Variants of ScheduleReconnect: without the wsReconnectTimer test, and
\* without the timer.
AlwaysScheduleReconnect ==
  [wsReconnectTimer |-> 1, timers |-> timers + 1]

NeverScheduleReconnect ==
  [wsReconnectTimer |-> wsReconnectTimer, timers |-> timers]

\* onclose: if (!wsReconnectTimer) wsReconnectTimer = setTimeout(..., 5000)
ScheduleReconnect ==
  IF wsReconnectTimer = 0
  THEN [wsReconnectTimer |-> 1, timers |-> timers + 1]
  ELSE [wsReconnectTimer |-> wsReconnectTimer, timers |-> timers]

\* chrome.storage.local.get callback at start-up (part_003:476-488).
InitCallback ==
  /\ ~initDone
  /\ initDone' = TRUE
  /\ LET port == IF MapHas(storage, "bridgePort") THEN storage.bridgePort ELSE bridgePort
         c == connectToBridge(sockets, wsConnection, port)
     IN /\ bridgePort' = port
        /\ sockets' = c.sockets
        /\ wsConnection' = c.wsConnection
  /\ excludedResourceTypes' =
       IF MapHas(storage, "excludedResourceTypes")
       THEN [k \in (DOMAIN excludedResourceTypes) \cup (DOMAIN storage.excludedResourceTypes) |->
               IF k \in DOMAIN storage.excludedResourceTypes
               THEN storage.excludedResourceTypes[k] ELSE excludedResourceTypes[k]]
       ELSE excludedResourceTypes
  /\ excludedPatterns' =
       IF MapHas(storage, "excludedPatterns")
       THEN [k \in (DOMAIN excludedPatterns) \cup (DOMAIN storage.excludedPatterns) |->
               IF k \in DOMAIN storage.excludedPatterns
               THEN storage.excludedPatterns[k] ELSE excludedPatterns[k]]
       ELSE excludedPatterns
  /\ lastOp' = [op |-> "init"]
  /\ UNCHANGED <<allErrors, allNetworkRequests, pendingRequests, isCapturing, tabState, extVars,
                 debuggerState, captureCalls, attachLog, pendingBody, lastReply, netLog, protoLog>>
  /\ UNCHANGED <<wsReconnectTimer, timers, storage, reachable, cmdsLeft, dropsLeft>>
  /\ UNCHANGED <<inflight, aggVars, contentVars, nextUid, budget, unsent, delivered>>

\* The aggregator's side of a connection (part_004:251-253, 291-293): the
\* 'connection' handler logs and installs the listeners, the 'close'
\* handler logs.  The operators give capturedData after the handler.
AggOnConnection(cd) == cd

\* Variant of the 'close' handler that forgets what the client delivered.
AggOnCloseForgets(cd) ==
  IF "errors" \in DOMAIN cd THEN [cd EXCEPT !.errors = <<>>, !.network = <<>>] ELSE cd

AggOnClose(cd) == cd

\* wsConnection.onopen of socket s; the aggregator has accepted the
\* connection.
SocketOpened(s) ==
  /\ sockets[s].readyState = "CONNECTING"
  /\ reachable
  /\ sockets' = [sockets EXCEPT ![s].readyState = "OPEN"]
  /\ storage' = MapSet(storage, "bridgeConnected", TRUE)
  /\ capturedData' = AggOnConnection(capturedData)
  /\ lastOp' = [op |-> "onopen", socket |-> s]
  /\ UNCHANGED <<wsConnection, wsReconnectTimer, bridgePort, initDone, timers,
                 reachable, cmdsLeft, dropsLeft>>
  /\ UNCHANGED <<homeFile, projectFile, httpResponse, aggNetLog, aggErrLog>>
  /\ UNCHANGED <<bgVars, extVars, inflight, contentVars, nextUid, budget, unsent, delivered>>

\* The close event of socket s: the connection attempt failed, the open
\* connection dropped, or the close() handshake ended.  Messages still in
\* flight on s are lost.  onclose clears wsConnection whichever socket it
\* belongs to.  The aggregator's 'close' handler runs for a connection it
\* had accepted.
SocketClosed(s) ==
  /\ sockets[s].readyState \in {"CONNECTING", "OPEN", "CLOSING"}
  /\ IF sockets[s].readyState # "CLOSING" /\ reachable
     THEN dropsLeft > 0 /\ dropsLeft' = dropsLeft - 1
     ELSE UNCHANGED dropsLeft
  /\ sockets' = [sockets EXCEPT ![s] = NoSocket]
  /\ inflight' = [inflight EXCEPT ![s] = <<>>]
  /\ storage' = MapSet(storage, "bridgeConnected", FALSE)
  /\ wsConnection' = 0
  /\ wsReconnectTimer' = ScheduleReconnect.wsReconnectTimer
  /\ timers' = ScheduleReconnect.timers
  /\ capturedData' = IF sockets[s].readyState = "CONNECTING"
                     THEN capturedData ELSE AggOnClose(capturedData)
  /\ lastOp' = [op |-> "onclose", socket |-> s, pending |-> wsReconnectTimer # 0]
  /\ UNCHANGED <<bridgePort, initDone, reachable, cmdsLeft>>
  /\ UNCHANGED <<homeFile, projectFile, httpResponse, aggNetLog, aggErrLog>>
  /\ UNCHANGED <<bgVars, extVars, contentVars, nextUid, budget, unsent, delivered>>

\* The reconnect timer fires: wsReconnectTimer = null; connectToBridge().
ReconnectTimerFired ==
  /\ timers > 0
  /\ NeedsSlot(sockets, wsConnection) => HasFreeSlot(sockets)
  /\ timers' = timers - 1
  /\ wsReconnectTimer' = 0
  /\ LET c == connectToBridge(sockets, wsConnection, bridgePort)
     IN /\ sockets' = c.sockets
        /\ wsConnection' = c.wsConnection
  /\ lastOp' = [op |-> "reconnectTimer"]
  /\ UNCHANGED <<bridgePort, initDone, storage, reachable, cmdsLeft, dropsLeft>>
  /\ UNCHANGED <<bgVars, extVars, inflight, aggVars, contentVars, nextUid, budget, unsent, delivered>>

\* wsConnection.close(): the socket starts the closing handshake.
CloseSocket(socks, conn) ==
  IF conn # 0 /\ socks[conn].readyState \in {"CONNECTING", "OPEN"}
  THEN [socks EXCEPT ![conn].readyState = "CLOSING"]
  ELSE socks

\* chrome.runtime.onMessage SET_BRIDGE_PORT (part_003:412-421).
SetBridgePort(port) ==
  /\ cmdsLeft > 0
  /\ HasFreeSlot(sockets)
  /\ cmdsLeft' = cmdsLeft - 1
  /\ bridgePort' = port
  /\ storage' = MapSet(storage, "bridgePort", port)
  /\ LET c == connectToBridge(CloseSocket(sockets, wsConnection), wsConnection, port)
     IN /\ sockets' = c.sockets
        /\ wsConnection' = c.wsConnection
  /\ lastReply' = [success |-> TRUE]
  /\ lastOp' = [op |-> "SET_BRIDGE_PORT", port |-> port]
  /\ UNCHANGED <<allErrors, allNetworkRequests, pendingRequests, isCapturing,
                 excludedResourceTypes, excludedPatterns, tabState, extVars,
                 debuggerState, captureCalls, attachLog, pendingBody,
                 netLog, protoLog>>
  /\ UNCHANGED <<wsReconnectTimer, initDone, timers, reachable, dropsLeft>>
  /\ UNCHANGED <<inflight, aggVars, contentVars, nextUid, budget, unsent, delivered>>

\* chrome.runtime.onMessage GET_BRIDGE_STATUS (part_003:405-410).
GetBridgeStatus ==
  /\ lastReply' = [connected |-> BridgeOpen, port |-> bridgePort]
  /\ lastOp' = [op |-> "GET_BRIDGE_STATUS"]
  /\ UNCHANGED <<allErrors, allNetworkRequests, pendingRequests, isCapturing,
                 excludedResourceTypes, excludedPatterns, tabState, extVars,
                 debuggerState, captureCalls, attachLog, pendingBody,
                 netLog, protoLog>>
  /\ UNCHANGED <<bridgeVars, inflight, aggVars, contentVars,
                 nextUid, budget, unsent, delivered>>

\* The aggregator process starts or stops listening.
AggregatorUp ==
  /\ ~reachable
  /\ reachable' = TRUE
  /\ lastOp' = [op |-> "aggregatorUp"]
  /\ UNCHANGED <<wsConnection, wsReconnectTimer, bridgePort, initDone, sockets, timers,
                 storage, cmdsLeft, dropsLeft>>
  /\ UNCHANGED <<bgVars, extVars, inflight, aggVars, contentVars, nextUid, budget, unsent, delivered>>

AggregatorDown ==
  /\ reachable
  /\ dropsLeft > 0
  /\ dropsLeft' = dropsLeft - 1
  /\ reachable' = FALSE
  /\ lastOp' = [op |-> "aggregatorDown"]
  /\ UNCHANGED <<wsConnection, wsReconnectTimer, bridgePort, initDone, sockets, timers,
                 storage, cmdsLeft>>
  /\ UNCHANGED <<bgVars, extVars, inflight, aggVars, contentVars, nextUid, budget, unsent, delivered>>

(***************************************************************************)
(* chrome.runtime.onMessage listener of the service worker                 *)
(* (part_003:349-451) and the tab listeners (part_003:453-467).            *)
(***************************************************************************)
ErrorMessages == {"TypeError: x.map is not a function", "Warning: hydration mismatch"}

\* ERROR_CAPTURED from the content script of tab tabId.
ErrorCaptured(tabId, message) ==
  /\ budget > 0
  /\ LET errs == MapGetOr(allErrors, tabId, <<>>)
         error == [raw |-> [type |-> "error", message |-> message], uid |-> nextUid]
     IN /\ allErrors' = MapSet(allErrors, tabId, BgPushError(errs, error))
        /\ inflight' = sendToBridge([type |-> "console_error", tabId |-> tabId,
                                     data |-> error])
        /\ unsent' = NoteUnsent(nextUid)
        /\ lastOp' = [op |-> "ERROR_CAPTURED", tabId |-> tabId, uid |-> nextUid,
                      excluded |-> FALSE, open |-> BridgeOpen]
  /\ nextUid' = nextUid + 1
  /\ budget' = budget - 1
  /\ UNCHANGED <<allNetworkRequests, pendingRequests, isCapturing, excludedResourceTypes,
                 excludedPatterns, tabState, extVars,
                 debuggerState, captureCalls, attachLog, pendingBody, lastReply, netLog, protoLog>>
  /\ UNCHANGED <<bridgeVars, aggVars, contentVars, delivered>>

\* The handlers that only answer: GET_TAB_ERRORS, GET_TAB_NETWORK, GET_ALL_DATA.
RuntimeQuery(type, tabId) ==
  /\ type \in {"GET_TAB_ERRORS", "GET_TAB_NETWORK", "GET_ALL_DATA"}
  /\ lastReply' =
       IF type = "GET_TAB_ERRORS"
       THEN [errors |-> MapGetOr(allErrors, tabId, <<>>)]
       ELSE IF type = "GET_TAB_NETWORK"
       THEN [requests |-> MapGetOr(allNetworkRequests, tabId, <<>>)]
       ELSE [errors |-> MapGetOr(allErrors, tabId, <<>>),
             network |-> MapGetOr(allNetworkRequests, tabId, <<>>)]
  /\ lastOp' = [op |-> type, tabId |-> tabId]
  /\ UNCHANGED <<allErrors, allNetworkRequests, pendingRequests, isCapturing,
                 excludedResourceTypes, excludedPatterns, tabState, extVars,
                 debuggerState, captureCalls, attachLog, pendingBody,
                 netLog, protoLog>>
  /\ UNCHANGED <<bridgeVars, inflight, aggVars, contentVars,
                 nextUid, budget, unsent, delivered>>

ClearTabErrors(tabId) ==
  /\ allErrors' = MapDelete(allErrors, tabId)
  /\ lastReply' = [success |-> TRUE]
  /\ lastOp' = [op |-> "CLEAR_TAB_ERRORS", tabId |-> tabId]
  /\ UNCHANGED <<allNetworkRequests, pendingRequests, isCapturing, excludedResourceTypes,
                 excludedPatterns, tabState, extVars,
                 debuggerState, captureCalls, attachLog, pendingBody, netLog, protoLog>>
  /\ UNCHANGED <<bridgeVars, inflight, aggVars, contentVars,
                 nextUid, budget, unsent, delivered>>

ClearTabNetwork(tabId) ==
  /\ allNetworkRequests' = MapDelete(allNetworkRequests, tabId)
  /\ netLog' = MapDelete(netLog, tabId)
  /\ lastReply' = [success |-> TRUE]
  /\ lastOp' = [op |-> "CLEAR_TAB_NETWORK", tabId |-> tabId]
  /\ UNCHANGED <<allErrors, pendingRequests, isCapturing, excludedResourceTypes,
                 excludedPatterns, tabState, extVars, debuggerState, captureCalls, attachLog, pendingBody, protoLog>>
  /\ UNCHANGED <<bridgeVars, inflight, aggVars, contentVars,
                 nextUid, budget, unsent, delivered>>

\* chrome.tabs.onUpdated with changeInfo.status === 'loading'.
TabLoading(tabId) ==
  /\ allErrors' = MapDelete(allErrors, tabId)
  /\ allNetworkRequests' = MapDelete(allNetworkRequests, tabId)
  /\ netLog' = MapDelete(netLog, tabId)
  /\ lastOp' = [op |-> "tabLoading", tabId |-> tabId]
  /\ UNCHANGED <<pendingRequests, isCapturing, excludedResourceTypes, excludedPatterns, tabState, extVars,
                 debuggerState, captureCalls, attachLog, pendingBody, lastReply, protoLog>>
  /\ UNCHANGED <<bridgeVars, inflight, aggVars, contentVars,
                 nextUid, budget, unsent, delivered>>

(***************************************************************************)
(* handleBridgeMessage (part_003:292-340): a command received on socket s. *)
(* tabId is message.tabId, or the active tab when the message has none.    *)
(***************************************************************************)
BridgeCommands == {"get_errors", "get_network", "get_all", "clear", "ping"}

\* Variant of CommandReply that answers a type without a branch.
CommandReplyEcho(type, requestId, tabId) ==
  IF type = "get_all"
  THEN <<[type |-> "all_data", requestId |-> requestId,
          data |-> [errors |-> MapGetOr(allErrors, tabId, <<>>),
                    network |-> MapGetOr(allNetworkRequests, tabId, <<>>)]]>>
  ELSE <<[type |-> "error", requestId |-> requestId]>>

\* Variant of CommandReply that answers without the request identifier.
CommandReplyAnonymous(type, requestId, tabId) ==
  LET errs == MapGetOr(allErrors, tabId, <<>>)
      reqs == MapGetOr(allNetworkRequests, tabId, <<>>)
  IN IF type = "get_errors"
     THEN <<[type |-> "errors", requestId |-> "none", data |-> errs]>>
     ELSE IF type = "get_network"
     THEN <<[type |-> "network", requestId |-> "none", data |-> reqs]>>
     ELSE IF type = "get_all"
     THEN <<[type |-> "all_data", requestId |-> "none",
             data |-> [errors |-> errs, network |-> reqs]]>>
     ELSE IF type = "clear"
     THEN <<[type |-> "cleared", requestId |-> "none"]>>
     ELSE <<>>

\* The message the branch for the command type hands to sendToBridge, as a
\* sequence of at most one; a type without a branch sends nothing.
CommandReply(type, requestId, tabId) ==
  LET errs == MapGetOr(allErrors, tabId, <<>>)
      reqs == MapGetOr(allNetworkRequests, tabId, <<>>)
  IN IF type = "get_errors"
     THEN <<[type |-> "errors", requestId |-> requestId, data |-> errs]>>
     ELSE IF type = "get_network"
     THEN <<[type |-> "network", requestId |-> requestId, data |-> reqs]>>
     ELSE IF type = "get_all"
     THEN <<[type |-> "all_data", requestId |-> requestId,
             data |-> [errors |-> errs, network |-> reqs]]>>
     ELSE IF type = "clear"
     THEN <<[type |-> "cleared", requestId |-> requestId]>>
     ELSE <<>>

\* The branch of handleBridgeMessage for the command type once tabId is
\* known; a type without a branch does nothing.
BridgeCommandEffect(type, requestId, tabId) ==
  LET reply == CommandReply(type, requestId, tabId)
  IN /\ inflight' = IF reply = <<>> THEN inflight ELSE sendToBridge(reply[1])
     /\ IF type = "clear"
        THEN /\ allErrors' = MapDelete(allErrors, tabId)
             /\ allNetworkRequests' = MapDelete(allNetworkRequests, tabId)
             /\ netLog' = MapDelete(netLog, tabId)
             /\ pendingRequests' = EmptyMap
        ELSE UNCHANGED <<allErrors, allNetworkRequests, netLog, pendingRequests>>

HandleBridgeMessage(s, type, requestId, givenTab, activeTab) ==
  /\ budget > 0
  /\ sockets[s].readyState = "OPEN"
  /\ LET tabId == IF givenTab # NoTab THEN givenTab ELSE activeTab
     IN /\ BridgeCommandEffect(type, requestId, tabId)
        /\ lastOp' = [op |-> type, tabId |-> tabId, requestId |-> requestId,
                      socket |-> s, open |-> BridgeOpen]
  /\ budget' = budget - 1
  /\ UNCHANGED <<isCapturing, excludedResourceTypes, excludedPatterns, tabState, extVars,
                 debuggerState, captureCalls, attachLog,
                 pendingBody, lastReply, protoLog>>
  /\ UNCHANGED <<bridgeVars, aggVars, contentVars, nextUid, unsent, delivered>>

(***************************************************************************)
(* Aggregator (part_004): saveData, the WebSocket message handler and the  *)
(* HTTP server.                                                            *)
(***************************************************************************)
EmptyData == [errors |-> <<>>, network |-> <<>>, lastUpdate |-> Null, pageUrl |-> Null]

\* The value of capturedData once the process has exited on an exception
\* that no handler catches.
Exited == [js |-> "process exited"]
AggRunning == capturedData # Exited

\* JSON.stringify writes an undefined array element as null.
JsonArray(a) == [i \in 1..Len(a) |-> IF a[i] = Undefined THEN Null ELSE a[i]]
JsonStringify(cd) ==
  [errors |-> JsonArray(cd.errors), network |-> JsonArray(cd.network),
   lastUpdate |-> cd.lastUpdate, pageUrl |-> cd.pageUrl]

\* Variant of saveData with one try block around both writes: a failure of
\* the first write skips the second.
saveDataOneTry(cd, okHome, okProject) ==
  LET stamped == [cd EXCEPT !.lastUpdate = Timestamp]
  IN /\ capturedData' = stamped
     /\ homeFile' = IF okHome THEN JsonStringify(stamped) ELSE homeFile
     /\ projectFile' = IF okHome /\ okProject THEN JsonStringify(stamped) ELSE projectFile

\* saveData() on the data cd: sets lastUpdate and writes both files, each
\* write failing on its own.
saveData(cd, okHome, okProject) ==
  LET stamped == [cd EXCEPT !.lastUpdate = Timestamp]
  IN /\ capturedData' = stamped
     /\ homeFile' = IF okHome THEN JsonStringify(stamped) ELSE homeFile
     /\ projectFile' = IF okProject THEN JsonStringify(stamped) ELSE projectFile

\* Variant of AggPushError that evicts the newest entry instead of the oldest.
AggPushErrorDropNewest(errs, data) ==
  LET pushed == Append(errs, data)
  IN IF Len(pushed) > AGG_MAX_ERRORS THEN SubSeq(pushed, 1, Len(pushed) - 1) ELSE pushed

\* capturedData.errors.push(data); if (length > 100) shift()
AggPushError(errs, data) ==
  LET pushed == Append(errs, data)
  IN IF Len(pushed) > AGG_MAX_ERRORS THEN Tail(pushed) ELSE pushed

\* capturedData.network.push(data); if (length > 200) shift()
AggPushNetwork(net, data) ==
  LET pushed == Append(net, data)
  IN IF Len(pushed) > AGG_MAX_NETWORK THEN Tail(pushed) ELSE pushed

\* case 'network_failure': capturedData.network.push(data)  -- no length check
AggPushFailure(net, data) == Append(net, data)

\* logError / logNetwork read a field of their argument and throw on
\* undefined and null.
LogThrows(data) == data \in {Undefined, Null}

MsgData(msg) == IF "data" \in DOMAIN msg THEN msg.data ELSE Undefined
HasUid(data) == data \notin {Undefined, Null} /\ "uid" \in DOMAIN data

\* The body of ws.on('message') for the parsed message msg (part_004:254-289).
\* An exception after the push leaves the handler through the catch, before
\* saveData.
AggHandle(msg, okHome, okProject) ==
  LET data == MsgData(msg)
  IN /\ IF msg.type = "console_error"
        THEN LET cd == [capturedData EXCEPT !.errors = AggPushError(@, data)]
             IN /\ aggErrLog' = Append(aggErrLog, data)
                /\ UNCHANGED aggNetLog
                /\ IF LogThrows(data)
                   THEN capturedData' = cd /\ UNCHANGED <<homeFile, projectFile>>
                   ELSE saveData(cd, okHome, okProject)
        ELSE IF msg.type \in {"network_request", "network_response"}
        THEN LET cd == [capturedData EXCEPT !.network = AggPushNetwork(@, data)]
             IN /\ aggNetLog' = Append(aggNetLog, data)
                /\ UNCHANGED aggErrLog
                /\ IF LogThrows(data)
                   THEN capturedData' = cd /\ UNCHANGED <<homeFile, projectFile>>
                   ELSE saveData(cd, okHome, okProject)
        ELSE IF msg.type = "network_failure"
        THEN LET cd == [capturedData EXCEPT !.network = AggPushFailure(@, data)]
             IN /\ aggNetLog' = Append(aggNetLog, data)
                /\ UNCHANGED aggErrLog
                /\ IF LogThrows(data)
                   THEN capturedData' = cd /\ UNCHANGED <<homeFile, projectFile>>
                   ELSE saveData(cd, okHome, okProject)
        ELSE UNCHANGED <<capturedData, homeFile, projectFile, aggErrLog, aggNetLog>>
     /\ delivered' = IF HasUid(data) /\ msg.type \in {"console_error", "network_request",
                                                      "network_response", "network_failure"}
                     THEN Append(delivered, data.uid) ELSE delivered
     /\ UNCHANGED httpResponse

\* The aggregator receives the oldest message in flight on socket s.
AggOnMessage(s, okHome, okProject) ==
  /\ reachable
  /\ AggRunning
  /\ sockets[s].readyState \in {"OPEN", "CLOSING"}
  /\ inflight[s] # <<>>
  /\ AggHandle(Head(inflight[s]), okHome, okProject)
  /\ inflight' = [inflight EXCEPT ![s] = Tail(@)]
  /\ lastOp' = [op |-> "ws.message", type |-> Head(inflight[s]).type,
                disk |-> [home |-> okHome, project |-> okProject]]
  /\ UNCHANGED <<bgVars, extVars, bridgeVars, contentVars, nextUid, budget, unsent>>

\* A message of any WebSocket client of the aggregator.
AggEvents == {[id |-> "r1", type |-> "request", url |-> UrlApi],
              [id |-> "r1", type |-> "response", url |-> UrlApi, status |-> 500],
              [id |-> "r1", type |-> "failure"],
              [raw |-> [type |-> "error", message |-> "boom"]]}
AggMessageTypes == {"console_error", "network_request", "network_response",
                    "network_failure", "errors"}

AggClientMessage(type, data, okHome, okProject) ==
  /\ budget > 0
  /\ AggRunning
  /\ budget' = budget - 1
  /\ LET d == IF data \in {Undefined, Null} THEN data
              ELSE [k \in (DOMAIN data) \cup {"uid"} |-> IF k = "uid" THEN nextUid ELSE data[k]]
     IN AggHandle([type |-> type, data |-> d], okHome, okProject)
  /\ nextUid' = nextUid + 1
  /\ lastOp' = [op |-> "ws.message", type |-> type,
                disk |-> [home |-> okHome, project |-> okProject]]
  /\ UNCHANGED <<bgVars, extVars, bridgeVars, inflight, contentVars, unsent>>

\* A message that JSON.parse rejects, or that parses to null: ignored.
AggBadMessage ==
  /\ lastOp' = [op |-> "ws.message", type |-> "unparseable"]
  /\ UNCHANGED <<bgVars, extVars, bridgeVars, inflight, aggVars, contentVars,
                 nextUid, budget, unsent, delivered>>

(***************************************************************************)
(* HTTP server of the aggregator (part_004:305-377).                       *)
(***************************************************************************)
Unparseable == [js |-> "not JSON"]
ServerEvent == [raw |-> [type |-> "server", message |-> "ECONNREFUSED"], serverEvent |-> TRUE]
IngestBodies == {Unparseable,
                 [type |-> "server_error", data |-> ServerEvent],
                 [type |-> "server_error", data |-> Null],
                 [type |-> "console_error", data |-> ServerEvent]}

\* POST /ingest with the request body body.
HttpIngest(body, okHome, okProject) ==
  /\ budget > 0
  /\ AggRunning
  /\ budget' = budget - 1
  /\ IF body = Unparseable
     THEN /\ httpResponse' = [status |-> 400, body |-> [error |-> "Invalid JSON"]]
          /\ UNCHANGED <<capturedData, homeFile, projectFile, aggErrLog, nextUid>>
     ELSE /\ IF body.type = "server_error" /\ body.data # Null
             THEN LET d == [k \in (DOMAIN body.data) \cup {"uid"} |->
                              IF k = "uid" THEN nextUid ELSE body.data[k]]
                      cd == [capturedData EXCEPT !.errors = AggPushError(@, d)]
                  IN /\ aggErrLog' = Append(aggErrLog, d)
                     /\ saveData(cd, okHome, okProject)
                     /\ nextUid' = nextUid + 1
             ELSE UNCHANGED <<capturedData, homeFile, projectFile, aggErrLog, nextUid>>
          /\ httpResponse' = [status |-> 200, body |-> [success |-> TRUE]]
  /\ lastOp' = [op |-> "POST /ingest", body |-> body,
                disk |-> [home |-> okHome, project |-> okProject]]
  /\ UNCHANGED <<aggNetLog, delivered>>
  /\ UNCHANGED <<bgVars, extVars, bridgeVars, inflight, contentVars, unsent>>

\* GET /clear
HttpClear(okHome, okProject) ==
  /\ AggRunning
  /\ saveData(EmptyData, okHome, okProject)
  /\ aggErrLog' = <<>>
  /\ aggNetLog' = <<>>
  /\ httpResponse' = [status |-> 200, body |-> [success |-> TRUE, message |-> "Data cleared"]]
  /\ lastOp' = [op |-> "GET /clear", disk |-> [home |-> okHome, project |-> okProject]]
  /\ UNCHANGED <<bgVars, extVars, bridgeVars, inflight, contentVars,
                 nextUid, budget, unsent, delivered>>

(***************************************************************************)
(* generateSummary (part_004:136-213), by its sections.  A section is the  *)
(* sequence of the items it lists.                                         *)
(***************************************************************************)
SUMMARY_SERVER_MAX == 10
SUMMARY_BROWSER_MAX == 15
SUMMARY_FAILED_MAX == 10
SUMMARY_RECENT_MAX == 10
HTTP_ERROR_STATUS == 400

\* e.serverEvent and n.type are read on every element: a null or undefined
\* element makes the filter callbacks throw a TypeError.
SummaryThrows(cd) ==
  \/ \E i \in 1..Len(cd.errors) : cd.errors[i] \in {Undefined, Null}
  \/ \E i \in 1..Len(cd.network) : cd.network[i] \in {Undefined, Null}

IsServerEvent(e) == "serverEvent" \in DOMAIN e /\ e.serverEvent = TRUE
IsType(n, type) == "type" \in DOMAIN n /\ n.type = type
\* Variant of IsFailed that overlooks the responses.
IsFailedOnlyFailures(n) == IsType(n, "failure")

IsFailed(n) ==
  \/ IsType(n, "failure")
  \/ IsType(n, "response") /\ n.status >= HTTP_ERROR_STATUS
IsRequest(n) == IsType(n, "request")

\* network.find(n => n.type === 'response' && n.url === r.url): the first
\* response with the URL of the request r, as a sequence of at most one.
ResponseOf(network, r) ==
  LET found == {i \in 1..Len(network) : IsType(network[i], "response") /\ network[i].url = r.url}
  IN IF found = {} THEN <<>>
     ELSE <<network[CHOOSE i \in found : \A k \in found : i <= k]>>

\* The line of one item of "Failed/Error Requests".
FailedLine(n) ==
  IF IsType(n, "failure") THEN [label |-> "FAILED", item |-> n]
  ELSE [label |-> "status", status |-> n.status, url |-> n.url, item |-> n]

\* The line of one item of "Recent Requests": status is <<>> for '...'.
RecentLine(network, r) ==
  LET response == ResponseOf(network, r)
  IN [request |-> r, url |-> r.url,
      status |-> IF response = <<>> THEN <<>> ELSE <<response[1].status>>]

generateSummary(cd) ==
  LET serverErrors == SelectSeq(cd.errors, IsServerEvent)
      browserErrors == SelectSeq(cd.errors, LAMBDA e : ~IsServerEvent(e))
      failed == SelectSeq(cd.network, IsFailed)
      requests == LastN(SelectSeq(cd.network, IsRequest), SUMMARY_RECENT_MAX)
      shown == LastN(failed, SUMMARY_FAILED_MAX)
  IN [serverErrors |-> LastN(serverErrors, SUMMARY_SERVER_MAX),
      browserErrors |-> LastN(browserErrors, SUMMARY_BROWSER_MAX),
      failedCount |-> Len(failed),
      failed |-> [i \in 1..Len(shown) |-> FailedLine(shown[i])],
      recent |-> [i \in 1..Len(requests) |-> RecentLine(cd.network, requests[i])]]

\* GET / , /data, /errors, /network, /summary and any other path (404).  An
\* exception of generateSummary leaves the request listener uncaught: the
\* process exits and the client gets no response.
HttpPaths == {"/data", "/errors", "/network", "/summary", "/nope"}
HttpGet(path) ==
  /\ AggRunning
  /\ IF path = "/summary" /\ SummaryThrows(capturedData)
     THEN /\ capturedData' = Exited
          /\ httpResponse' = [status |-> 0, body |-> [error |-> "socket hang up"]]
     ELSE /\ UNCHANGED capturedData
          /\ httpResponse' =
               IF path \in {"/", "/data"}
               THEN [status |-> 200, body |-> JsonStringify(capturedData)]
               ELSE IF path = "/errors"
               THEN [status |-> 200, body |-> JsonArray(capturedData.errors)]
               ELSE IF path = "/network"
               THEN [status |-> 200, body |-> JsonArray(capturedData.network)]
               ELSE IF path = "/summary"
               THEN [status |-> 200, body |-> generateSummary(capturedData)]
               ELSE [status |-> 404, body |-> [error |-> "Not found"]]
  /\ lastOp' = [op |-> "GET", path |-> path, afterClear |-> lastOp.op = "GET /clear",
                before |-> [capturedData |-> capturedData, homeFile |-> homeFile,
                            projectFile |-> projectFile]]
  /\ UNCHANGED <<homeFile, projectFile, aggNetLog, aggErrLog>>
  /\ UNCHANGED <<bgVars, extVars, bridgeVars, inflight, contentVars,
                 nextUid, budget, unsent, delivered>>

(***************************************************************************)
(* Instrumentation Agent (content.js): addError and the message listener.  *)
(* A message is the sequence of its character codes.                       *)
(***************************************************************************)
\* String.prototype.substring(from, to) for 0 <= from <= to.
Substring(str, from, to) == SubSeq(str, from + 1, Min(to, Len(str)))

\* Two messages that agree on their first 100 characters and differ in the
\* 101st, and a short one.
MsgLongA == [i \in 1..(MSG_KEY_LEN + 1) |-> IF i <= MSG_KEY_LEN THEN 97 ELSE 120]
MsgLongB == [i \in 1..(MSG_KEY_LEN + 1) |-> IF i <= MSG_KEY_LEN THEN 97 ELSE 121]
MsgShort == <<98>>
ContentMessages == {MsgLongA, MsgLongB, MsgShort}

\* The clock steps between two handlers, in ms; the wall clock can be set back.
TickDeltas == {1, DEDUP_WINDOW_MS - 1, 1 - DEDUP_WINDOW_MS}

\* (errorData.message || '').substring(0, 100); a missing message is <<>>.
MsgKey(message) == Substring(message, 0, MSG_KEY_LEN)

\* Variant of IsDupe that compares whole messages, not their prefixes.
IsDupeFullMessage(message) ==
  \E i \in 1..Len(errors) :
     /\ errors[i].raw.message = message
     /\ now - errors[i].timestamp < DEDUP_WINDOW_MS

\* errors.some(e => key(e.raw.message) === msgKey && Date.now() - e.timestamp < 1000)
IsDupe(message) ==
  \E i \in 1..Len(errors) :
     /\ MsgKey(errors[i].raw.message) = MsgKey(message)
     /\ now - errors[i].timestamp < DEDUP_WINDOW_MS

\* errors.push(formattedError); if (errors.length > MAX_ERRORS) errors.shift()
ContentPush(errs, formattedError) ==
  LET pushed == Append(errs, formattedError)
  IN IF Len(pushed) > MAX_ERRORS THEN Tail(pushed) ELSE pushed

(***************************************************************************)
(* REACT_ERROR_PATTERNS and identifyReactErrorType (content.js:64-78).  A   *)
(* message is the sequence of its character codes; the alternatives of a   *)
(* pattern are written in lower case, the patterns ignore case.            *)
(***************************************************************************)
\* hydrat | mismatch | text content does not match; server.*client is ServerClient
HydrationWords ==
  {<<104, 121, 100, 114, 97, 116>>,
   <<109, 105, 115, 109, 97, 116, 99, 104>>,
   <<116, 101, 120, 116, 32, 99, 111, 110, 116, 101, 110, 116, 32, 100, 111, 101, 115, 32, 110, 111, 116, 32, 109, 97, 116, 99, 104>>}
\* hook | useState | useEffect | useRef | useMemo | useCallback | useContext | useReducer
HooksWords ==
  {<<104, 111, 111, 107>>,
   <<117, 115, 101, 115, 116, 97, 116, 101>>,
   <<117, 115, 101, 101, 102, 102, 101, 99, 116>>,
   <<117, 115, 101, 114, 101, 102>>,
   <<117, 115, 101, 109, 101, 109, 111>>,
   <<117, 115, 101, 99, 97, 108, 108, 98, 97, 99, 107>>,
   <<117, 115, 101, 99, 111, 110, 116, 101, 120, 116>>,
   <<117, 115, 101, 114, 101, 100, 117, 99, 101, 114>>}
\* render | component | element | jsx | Invalid prop | Failed prop
RenderWords ==
  {<<114, 101, 110, 100, 101, 114>>,
   <<99, 111, 109, 112, 111, 110, 101, 110, 116>>,
   <<101, 108, 101, 109, 101, 110, 116>>,
   <<106, 115, 120>>,
   <<105, 110, 118, 97, 108, 105, 100, 32, 112, 114, 111, 112>>,
   <<102, 97, 105, 108, 101, 100, 32, 112, 114, 111, 112>>}
\* getServerSideProps | getStaticProps | _app | _document | next/ | middleware
NextjsWords ==
  {<<103, 101, 116, 115, 101, 114, 118, 101, 114, 115, 105, 100, 101, 112, 114, 111, 112, 115>>,
   <<103, 101, 116, 115, 116, 97, 116, 105, 99, 112, 114, 111, 112, 115>>,
   <<95, 97, 112, 112>>,
   <<95, 100, 111, 99, 117, 109, 101, 110, 116>>,
   <<110, 101, 120, 116, 47>>,
   <<109, 105, 100, 100, 108, 101, 119, 97, 114, 101>>}
ServerWord == <<115, 101, 114, 118, 101, 114>>
ClientWord == <<99, 108, 105, 101, 110, 116>>

\* The lower-case form of a character code (flag i).
LowerCase(c) == IF c >= 65 /\ c <= 90 THEN c + 32 ELSE c

\* The word w stands in the message at position i.
WordAt(message, w, i) ==
  /\ i >= 1
  /\ i + Len(w) - 1 <= Len(message)
  /\ \A j \in 1..Len(w) : LowerCase(message[i + j - 1]) = w[j]
ContainsWord(message, w) == \E i \in 1..Len(message) : WordAt(message, w, i)

\* /server.*client/i: the dot matches no line terminator.
ServerClient(message) ==
  \E i \in 1..Len(message) :
     /\ WordAt(message, ServerWord, i)
     /\ \E k \in (i + Len(ServerWord))..Len(message) :
          /\ WordAt(message, ClientWord, k)
          /\ \A j \in (i + Len(ServerWord))..(k - 1) : message[j] \notin {10, 13}

\* Object.entries(REACT_ERROR_PATTERNS) lists the keys in the order written.
TopicOrder == <<"hydration", "hooks", "render", "nextjs">>
PatternTest(topic, message) ==
  IF topic = "hydration"
  THEN (\E w \in HydrationWords : ContainsWord(message, w)) \/ ServerClient(message)
  ELSE IF topic = "hooks" THEN \E w \in HooksWords : ContainsWord(message, w)
  ELSE IF topic = "render" THEN \E w \in RenderWords : ContainsWord(message, w)
  ELSE \E w \in NextjsWords : ContainsWord(message, w)

\* The null that identifyReactErrorType returns.
NoTag == "null"

\* Variant of identifyReactErrorType that returns the last topic that matches.
identifyReactErrorTypeLast(message) ==
  LET RECURSIVE FromLast(_)
      FromLast(k) == IF k = 0 THEN NoTag
                     ELSE IF PatternTest(TopicOrder[k], message) THEN TopicOrder[k]
                     ELSE FromLast(k - 1)
  IN IF message = <<>> THEN NoTag ELSE FromLast(Len(TopicOrder))

\* if (!message) return null; the first entry whose pattern matches, or null.
identifyReactErrorType(message) ==
  LET RECURSIVE FromEntry(_)
      FromEntry(k) == IF k > Len(TopicOrder) THEN NoTag
                      ELSE IF PatternTest(TopicOrder[k], message) THEN TopicOrder[k]
                      ELSE FromEntry(k + 1)
  IN IF message = <<>> THEN NoTag ELSE FromEntry(1)

\* addError(errorData) (content.js:189-225).  The ERROR_CAPTURED message it
\* sends is received by ErrorCaptured of the service worker.
addError(type, message) ==
  /\ budget > 0
  /\ budget' = budget - 1
  /\ LET dupe == IsDupe(message)
         formattedError == [raw |-> [type |-> type, message |-> message],
                            timestamp |-> now, uid |-> nextUid,
                            reactType |-> identifyReactErrorType(message)]
     IN /\ errors' = IF dupe THEN errors ELSE ContentPush(errors, formattedError)
        /\ captureLog' = Append(captureLog, [key |-> MsgKey(message), at |-> now,
                                             uid |-> nextUid, dupe |-> dupe])
        /\ lastOp' = [op |-> "addError", uid |-> nextUid, dupe |-> dupe]
  /\ nextUid' = nextUid + 1
  /\ UNCHANGED <<now, ticksLeft, contentReply, pageVars>>
  /\ UNCHANGED <<bgVars, extVars, bridgeVars, inflight, aggVars, unsent, delivered>>

\* chrome.runtime.onMessage of the content script (content.js:447-457).
ContentMessage(type) ==
  /\ type \in {"GET_ERRORS", "CLEAR_ERRORS", "PING"}
  /\ errors' = IF type = "CLEAR_ERRORS" THEN <<>> ELSE errors
  /\ contentReply' =
       IF type = "GET_ERRORS" THEN [errors |-> errors]
       ELSE IF type = "CLEAR_ERRORS" THEN [success |-> TRUE]
       ELSE [status |-> "active", errorCount |-> Len(errors)]
  /\ lastOp' = [op |-> type]
  /\ UNCHANGED <<now, ticksLeft, captureLog, pageVars>>
  /\ UNCHANGED <<bgVars, extVars, bridgeVars, inflight, aggVars, nextUid, budget, unsent, delivered>>

\* Time passes.
Tick(d) ==
  /\ ticksLeft > 0
  /\ now + d >= 0
  /\ now' = now + d
  /\ ticksLeft' = ticksLeft - 1
  /\ lastOp' = [op |-> "tick"]
  /\ UNCHANGED <<errors, contentReply, captureLog, pageVars>>
  /\ UNCHANGED <<bgVars, extVars, bridgeVars, inflight, aggVars, nextUid, budget, unsent, delivered>>

(***************************************************************************)
(* Initial states.  InitBase is the state after the three programs have    *)
(* been loaded.  The other initial states are states the programs reach:   *)
(* capture started on the tabs, a bridge that is connected or waiting to   *)
(* reconnect, and arrays filled up to their caps by earlier events.        *)
(***************************************************************************)
InitBg ==
  /\ allErrors = EmptyMap
  /\ allNetworkRequests = EmptyMap
  /\ pendingRequests = EmptyMap
  /\ isCapturing = EmptyMap
  /\ excludedResourceTypes = DefaultExcludedResourceTypes
  /\ excludedPatterns = DefaultExcludedPatterns
  /\ tabState = [t \in Tabs |-> OpenTab]
  /\ InitExtension
  /\ debuggerState = [t \in Tabs |-> "detached"]
  /\ captureCalls = {}
  /\ attachLog = [t \in Tabs |-> 0]
  /\ pendingBody = {}
  /\ lastReply = Undefined
  /\ netLog = EmptyMap
  /\ protoLog = [k \in RequestIds \X {"request", "end"} |-> 0]

InitBridge ==
  /\ wsConnection = 0
  /\ wsReconnectTimer = 0
  /\ bridgePort = 9876
  /\ initDone = FALSE
  /\ sockets = [s \in SocketIds |-> NoSocket]
  /\ inflight = [s \in SocketIds |-> <<>>]
  /\ timers = 0
  /\ storage = EmptyMap
  /\ reachable \in BOOLEAN
  /\ cmdsLeft = MaxCmds
  /\ dropsLeft = MaxDrops

InitAgg ==
  /\ capturedData = EmptyData
  /\ homeFile = Undefined
  /\ projectFile = Undefined
  /\ httpResponse = Undefined
  /\ aggNetLog = <<>>
  /\ aggErrLog = <<>>

\* The page after both import timers have fired with nothing to import.
InitPage ==
  /\ importTimers = 0
  /\ earlyVisible = FALSE
  /\ InitWorlds
  /\ earlyErrors = <<>>
  /\ posted = <<>>

InitContent ==
  /\ errors = <<>>
  /\ now = 0
  /\ ticksLeft = MaxTicks
  /\ contentReply = Undefined
  /\ captureLog = <<>>
  /\ InitPage

InitHist ==
  /\ nextUid = 1
  /\ budget = MaxEvents
  /\ unsent = {}
  /\ delivered = <<>>
  /\ lastOp = [op |-> "start"]

InitBase == InitBg /\ InitBridge /\ InitAgg /\ InitContent /\ InitHist

\* Capture has been started on every tab (START_NETWORK_CAPTURE succeeded).
InitBgCapturing ==
  /\ allErrors = EmptyMap
  /\ isCapturing = [t \in Tabs |-> TRUE]
  /\ excludedResourceTypes = DefaultExcludedResourceTypes
  /\ excludedPatterns = DefaultExcludedPatterns
  /\ tabState = [t \in Tabs |-> OpenTab]
  /\ InitExtension
  /\ debuggerState = [t \in Tabs |-> "enabled"]
  /\ captureCalls = {}
  /\ attachLog = [t \in Tabs |-> 1]
  /\ pendingBody = {}
  /\ lastReply = Undefined

\* The start-up callback has run and the first socket is open, or its close
\* event has been handled and the reconnect timer is pending.
InitBridgeSettled ==
  /\ bridgePort = 9876
  /\ initDone = TRUE
  /\ inflight = [s \in SocketIds |-> <<>>]
  /\ cmdsLeft = MaxCmds
  /\ dropsLeft = MaxDrops
  /\ \/ /\ reachable = TRUE
        /\ wsConnection = 1
        /\ wsReconnectTimer = 0
        /\ timers = 0
        /\ sockets = [s \in SocketIds |->
                        IF s = 1 THEN [readyState |-> "OPEN", port |-> 9876] ELSE NoSocket]
        /\ storage = [k \in {"bridgeConnected"} |-> TRUE]
     \/ /\ reachable = FALSE
        /\ wsConnection = 0
        /\ wsReconnectTimer = 1
        /\ timers = 1
        /\ sockets = [s \in SocketIds |-> NoSocket]
        /\ storage = [k \in {"bridgeConnected"} |-> FALSE]

\* n requests r1 of tab t1 that no response has followed: uids 1..n.
FilledRequests(n) ==
  [i \in 1..n |-> [id |-> "r1", type |-> "request", uid |-> i,
                   url |-> UrlApi, resourceType |-> "XHR"]]

FillSizes(cap) == {0, cap - 1, cap}

InitNet ==
  /\ InitBgCapturing /\ InitBridgeSettled /\ InitAgg /\ InitContent
  /\ \E n \in FillSizes(BG_MAX_NETWORK) :
       /\ allNetworkRequests = IF n = 0 THEN EmptyMap ELSE [t \in {"t1"} |-> FilledRequests(n)]
       /\ netLog = allNetworkRequests
       /\ pendingRequests = IF n = 0 THEN EmptyMap
                             ELSE [id \in {"r1"} |-> FilledRequests(n)[n]]
       /\ protoLog = [k \in RequestIds \X {"request", "end"} |->
                        IF k = <<"r1", "request">> THEN n ELSE 0]
       /\ nextUid = n + 1
  /\ budget = MaxEvents
  /\ unsent = {}
  /\ delivered = <<>>
  /\ lastOp = [op |-> "start"]

\* n error events the aggregator accepted earlier: uids 1..n.
FilledErrors(n) ==
  [i \in 1..n |-> [raw |-> [type |-> "error", message |-> "boom"], uid |-> i]]

\* n network requests the aggregator accepted earlier: uids 1..n.
FilledNetwork(n) ==
  [i \in 1..n |-> [id |-> "r2", type |-> "request", url |-> UrlApi, uid |-> i]]

\* The aggregator after n accepted events of one class; the last saveData
\* wrote both files.
InitAggFilled ==
  /\ \E side \in {"errors", "network"} :
     \E n \in (IF side = "errors" THEN FillSizes(AGG_MAX_ERRORS)
                                  ELSE FillSizes(AGG_MAX_NETWORK)) :
       /\ capturedData = [errors |-> IF side = "errors" THEN FilledErrors(n) ELSE <<>>,
                          network |-> IF side = "network" THEN FilledNetwork(n) ELSE <<>>,
                          lastUpdate |-> IF n = 0 THEN Null ELSE Timestamp,
                          pageUrl |-> Null]
       /\ homeFile = IF n = 0 THEN Undefined ELSE JsonStringify(capturedData)
       /\ projectFile = homeFile
       /\ aggErrLog = capturedData.errors
       /\ aggNetLog = capturedData.network
       /\ nextUid = n + 1
  /\ httpResponse = Undefined

InitAggregator ==
  /\ InitBg /\ InitBridge /\ reachable = TRUE /\ InitAggFilled /\ InitContent
  /\ budget = MaxEvents
  /\ unsent = {}
  /\ delivered = <<>>
  /\ lastOp = [op |-> "start"]

\* The agent's array after the message MsgLongA and n - 1 other messages were
\* captured within the same millisecond.
FilledContent(n) ==
  [i \in 1..n |-> [raw |-> [type |-> "error",
                            message |-> IF i = 1 THEN MsgLongA ELSE <<1000 + i>>],
                   timestamp |-> 0, uid |-> i,
                   reactType |-> identifyReactErrorType(IF i = 1 THEN MsgLongA
                                                        ELSE <<1000 + i>>)]]

InitContentFilled ==
  /\ InitPage
  /\ now = 0
  /\ ticksLeft = MaxTicks
  /\ contentReply = Undefined
  /\ \E n \in FillSizes(MAX_ERRORS) :
       /\ errors = FilledContent(n)
       /\ captureLog = [i \in 1..n |-> [key |-> MsgKey(errors[i].raw.message), at |-> 0,
                                        uid |-> i, dupe |-> FALSE]]
       /\ nextUid = n + 1

InitAgent ==
  /\ InitBg /\ InitBridge /\ reachable = TRUE /\ InitAgg /\ InitContentFilled
  /\ budget = MaxCaptures
  /\ unsent = {}
  /\ delivered = <<>>
  /\ lastOp = [op |-> "start"]

InitPipe ==
  /\ InitBgCapturing /\ allNetworkRequests = EmptyMap /\ netLog = EmptyMap
  /\ pendingRequests = EmptyMap
  /\ protoLog = [k \in RequestIds \X {"request", "end"} |-> 0]
  /\ InitBridge /\ InitAgg /\ InitContent
  /\ nextUid = 1
  /\ unsent = {}
  /\ delivered = <<>>
  /\ lastOp = [op |-> "start"]

(***************************************************************************)
(* Next-state relations and specifications.                                *)
(***************************************************************************)
NextBridge ==
  \/ InitCallback
  \/ \E s \in SocketIds : SocketOpened(s)
  \/ \E s \in SocketIds : SocketClosed(s)
  \/ ReconnectTimerFired
  \/ \E port \in Ports : SetBridgePort(port)
  \/ GetBridgeStatus
  \/ AggregatorUp
  \/ AggregatorDown

\* The lifecycle events of NextNet: a request that is kept and one that the
\* filter rejects by its type; responses for a known and for an unknown id,
\* and unknown-id responses that the filter rejects by type and by URL.
NetRequests == {<<"r1", "XHR", UrlApi>>, <<"r1", "Image", UrlPng>>}
NetResponses == {<<"r1", "XHR", UrlApi>>, <<"r2", "XHR", UrlApi>>,
                 <<"r2", "Image", UrlPng>>, <<"r2", "XHR", UrlPng>>}

NextNet ==
  \/ \E e \in NetRequests : OnRequestWillBeSent("t1", e[1], e[2], e[3])
  \/ \E e \in NetResponses : OnResponseReceived("t1", e[1], e[2], e[3], 500)
  \/ OnOtherDebuggerEvent("t1")
  \/ \E uid \in pendingBody :
       GetResponseBodyResolved(uid, [base64Encoded |-> FALSE, body |-> TextShort])
  \/ \E uid \in pendingBody : GetResponseBodyRejected(uid)
  \/ RuntimeQuery("GET_TAB_NETWORK", "t1")
  \/ TabLoading("t1")
  \/ \E s \in SocketIds, ty \in {"get_network", "clear"} :
       HandleBridgeMessage(s, ty, "q1", "t1", NoTab)

\* The lifecycle events of tab t1 on arrays filled up to the cap.
NextNetCap ==
  \/ \E id \in RequestIds, rt \in ResourceTypes : OnRequestWillBeSent("t1", id, rt, UrlApi)
  \/ \E id \in RequestIds, u \in Urls : OnResponseReceived("t1", id, "XHR", u, 500)
  \/ \E id \in RequestIds : OnLoadingFailed("t1", id)
  \/ ClearTabNetwork("t1")
  \/ TabLoading("t1")

AggMessages ==
  {[type |-> "console_error", data |-> [raw |-> [type |-> "error", message |-> "boom"]]],
   [type |-> "console_error", data |-> Null],
   [type |-> "network_request", data |-> [id |-> "r1", type |-> "request", url |-> UrlApi]],
   [type |-> "network_response",
    data |-> [id |-> "r1", type |-> "response", url |-> UrlApi, status |-> 500]],
   [type |-> "network_failure", data |-> [id |-> "r1", type |-> "failure"]],
   [type |-> "errors", data |-> Null]}

NextAggregator ==
  \/ \E m \in AggMessages : AggClientMessage(m.type, m.data, TRUE, TRUE)
  \/ AggBadMessage
  \/ \E b \in IngestBodies : HttpIngest(b, TRUE, TRUE)
  \/ HttpClear(TRUE, TRUE)

NextAgent ==
  \/ \E m \in ContentMessages : addError("error", m)
  \/ ContentMessage("CLEAR_ERRORS")
  \/ \E d \in TickDeltas : Tick(d)

NextPipe ==
  \/ InitCallback
  \/ \E s \in SocketIds : SocketOpened(s)
  \/ \E s \in SocketIds : SocketClosed(s)
  \/ ReconnectTimerFired
  \/ OnRequestWillBeSent("t1", "r1", "XHR", UrlApi)
  \/ OnResponseReceived("t1", "r1", "XHR", UrlApi, 500)
  \/ OnLoadingFailed("t1", "r1")
  \/ ErrorCaptured("t1", "TypeError: x.map is not a function")
  \/ \E s \in SocketIds : AggOnMessage(s, TRUE, TRUE)

InitBridgeUp == InitBase /\ reachable = TRUE
InitPipeUp == InitPipe /\ reachable = TRUE /\ budget = MaxPipeEvents
InitNetEmpty == InitNet /\ allNetworkRequests = EmptyMap

SpecBridge == InitBridgeUp /\ [][NextBridge]_vars
SpecNet == InitNetEmpty /\ [][NextNet]_vars
SpecNetCap == InitNet /\ [][NextNetCap]_vars
SpecAggCap == InitAggregator /\ [][NextAggregator]_vars
SpecContent == InitAgent /\ [][NextAgent]_vars
Spec == InitPipeUp /\ [][NextPipe]_vars

\* The bridge under the scheduling the browser gives it: a timer that is due
\* fires, a connection attempt to a listening aggregator completes, and the
\* start-up callback runs.
LiveBridge ==
  /\ InitBridgeUp
  /\ [][NextBridge]_vars
  /\ WF_vars(InitCallback)
  /\ WF_vars(ReconnectTimerFired)
  /\ \A s \in SocketIds : WF_vars(SocketOpened(s))

(***************************************************************************)
(* Properties.                                                             *)
(***************************************************************************)
\* The number of elements of the sequence s that satisfy the test.
CountIn(s, Test(_)) == Cardinality({i \in 1..Len(s) : Test(s[i])})

\* C1: in the background network buffer of a tab, after any sequence of
\* requestWillBeSent, responseReceived and loadingFailed events, the length
\* never exceeds 100 and the entries are the most recent 100 insertions in
\* their original order.
C1_BoundedRecent ==
  \A t \in DOMAIN allNetworkRequests :
     LET reqs == [i \in 1..Len(allNetworkRequests[t]) |-> allNetworkRequests[t][i].uid]
         log == [i \in 1..Len(netLog[t]) |-> netLog[t][i].uid]
     IN /\ Len(reqs) <= BG_MAX_NETWORK
        /\ reqs = LastN(log, BG_MAX_NETWORK)

\* C2: in the aggregator, after any sequence of network_request,
\* network_response and network_failure messages, capturedData.network never
\* holds more than 200 entries and the entries are the most recent ones in
\* arrival order.
C2_BoundedRecent ==
  /\ Len(capturedData.network) <= AGG_MAX_NETWORK
  /\ capturedData.network = LastN(aggNetLog, AGG_MAX_NETWORK)

\* C3: in the aggregator, after any interleaving of console_error messages
\* and accepted POST /ingest requests, capturedData.errors never holds more
\* than 100 entries and equals the last min(n, 100) of the n error events
\* accepted since the store was last reset, in arrival order.
C3_ErrorsBoundedRecent ==
  /\ Len(capturedData.errors) <= AGG_MAX_ERRORS
  /\ Len(capturedData.errors) = Min(Len(aggErrLog), AGG_MAX_ERRORS)
  /\ capturedData.errors = LastN(aggErrLog, AGG_MAX_ERRORS)

\* More than 100 error events were accepted, the last one through
\* POST /ingest and an earlier one through console_error (or the reverse).
C3_Witness ==
  /\ Len(aggErrLog) > AGG_MAX_ERRORS
  /\ \E i, j \in 1..Len(capturedData.errors) :
        /\ capturedData.errors[i] \notin {Undefined, Null}
        /\ capturedData.errors[j] \notin {Undefined, Null}
        /\ "serverEvent" \in DOMAIN capturedData.errors[i]
        /\ "serverEvent" \notin DOMAIN capturedData.errors[j]
        /\ capturedData.errors[j].uid > AGG_MAX_ERRORS

\* The uids of the events in the agent's buffer.
BufferedUids == {errors[i].uid : i \in 1..Len(errors)}

\* C4 (as stated): for every pair of captured events whose raw messages share
\* the first 100 characters and that are captured less than 1 second apart,
\* only the first is retained, after any sequence of addError, eviction at
\* the cap and CLEAR_ERRORS.
C4_OnlyFirstRetained ==
  \A i, j \in 1..Len(captureLog) :
     (/\ i < j
      /\ captureLog[i].key = captureLog[j].key
      /\ captureLog[j].at - captureLog[i].at >= 0
      /\ captureLog[j].at - captureLog[i].at < DEDUP_WINDOW_MS)
     => captureLog[j].uid \notin BufferedUids

\* C4 (amended): addError discards an event exactly when the buffer holds an
\* event with the same first-100-character prefix whose timestamp is less than
\* 1 second before the clock, and appends it otherwise; hence two buffered
\* events with the same prefix are at least 1 second apart, the later one
\* behind the earlier one.
C4_BufferedPrefixesApart ==
  /\ LET key == [i \in 1..Len(errors) |-> MsgKey(errors[i].raw.message)]
     IN \A i, j \in 1..Len(errors) :
           (i < j /\ key[i] = key[j])
           => errors[j].timestamp - errors[i].timestamp >= DEDUP_WINDOW_MS
  /\ Len(errors) <= MAX_ERRORS
  /\ lastOp.op = "addError" =>
       LET last == captureLog[Len(captureLog)]
       IN IF lastOp.dupe
          THEN /\ last.uid \notin BufferedUids
               /\ \E i \in 1..Len(errors) :
                     /\ MsgKey(errors[i].raw.message) = last.key
                     /\ last.at - errors[i].timestamp < DEDUP_WINDOW_MS
          ELSE /\ errors[Len(errors)].uid = last.uid
               /\ \A i \in 1..(Len(errors) - 1) :
                     MsgKey(errors[i].raw.message) = last.key
                     => last.at - errors[i].timestamp >= DEDUP_WINDOW_MS

\* A duplicate has been discarded, and the buffer holds two events with the
\* same prefix, the second captured after the window of the first.
C4_Witness ==
  /\ \E k \in 1..Len(captureLog) : captureLog[k].dupe
  /\ \E i, j \in 1..Len(errors) :
        /\ i < j
        /\ MsgKey(errors[i].raw.message) = MsgKey(errors[j].raw.message)
        /\ errors[i].raw.message # errors[j].raw.message

\* C5: after any number of socket close events and reconnect attempts at most
\* one reconnect timer is pending, and wsReconnectTimer is set exactly while
\* it is: onclose schedules the timer only when wsReconnectTimer is empty, and
\* the timer clears wsReconnectTimer before it calls connectToBridge.
C5_OneReconnectTimer ==
  /\ timers <= 1
  /\ (timers = 1) <=> (wsReconnectTimer # 0)

\* A socket has closed while the reconnect timer of an earlier close was
\* still pending, and one timer is pending.
C5_Witness ==
  /\ lastOp.op = "onclose"
  /\ lastOp.pending
  /\ timers = 1

\* C6: at any time at most one bridge socket that is connecting or open
\* exists on the sending side, for every interleaving of connectToBridge
\* calls, socket open and close events, reconnect-timer firings and
\* SET_BRIDGE_PORT commands.
C6_AtMostOneLiveSocket ==
  Cardinality({s \in SocketIds : Live(s)}) <= 1

\* C7: whenever a socket has closed (the connection dropped or the attempt
\* failed) while the aggregator listens, the bridge is connected again later,
\* unless the aggregator stops listening in between.
C7_EventuallyReconnected ==
  (lastOp.op = "onclose" /\ reachable) ~> (BridgeOpen \/ ~reachable)

\* The bridge is connected again after a close event: the socket that has
\* just opened was created by the reconnect timer.
C7_Witness ==
  /\ lastOp.op = "onopen"
  /\ BridgeOpen
  /\ dropsLeft < MaxDrops
  /\ cmdsLeft = MaxCmds
  /\ timers = 0

EventTypes == {"console_error", "network_request", "network_response", "network_failure"}

\* The uids of the events in the messages in flight on the bridge sockets.
InFlightUids ==
  UNION {{inflight[s][i].data.uid :
            i \in {k \in 1..Len(inflight[s]) : inflight[s][k].type \in EventTypes}} :
         s \in SocketIds}

\* The uids of the events in the per-tab buffer of tabId the event class of op.
LocalUids(op, tabId) ==
  LET buf == IF op = "ERROR_CAPTURED" THEN MapGetOr(allErrors, tabId, <<>>)
             ELSE MapGetOr(allNetworkRequests, tabId, <<>>)
  IN {buf[i].uid : i \in 1..Len(buf)}

\* C8: an event retained while the bridge is not connected is in the local
\* per-tab buffer when its handler returns, and is neither in flight to the
\* aggregator nor received by it at any later time; no event is received by
\* the aggregator more than once.
C8_UnsentNeverDelivered ==
  /\ \A uid \in unsent : uid \notin InFlightUids /\ uid \notin Range(delivered)
  /\ \A i, j \in 1..Len(delivered) : i # j => delivered[i] # delivered[j]
  /\ (/\ lastOp.op \in {"ERROR_CAPTURED", "requestWillBeSent", "responseReceived",
                        "loadingFailed"}
      /\ ~lastOp.open
      /\ ~lastOp.excluded)
     => /\ lastOp.uid \in unsent
        /\ lastOp.uid \in LocalUids(lastOp.op, lastOp.tabId)

\* An event was retained while the bridge was not connected and is still in
\* the tab's buffer; the bridge has connected since, and the aggregator has
\* received a later event.
C8_Witness ==
  /\ \E uid \in unsent :
        /\ uid \in LocalUids("ERROR_CAPTURED", "t1") \cup LocalUids("requestWillBeSent", "t1")
        /\ \E i \in 1..Len(delivered) : delivered[i] > uid
  /\ BridgeOpen

\* The last message sent on the current socket.
LastSent == inflight[wsConnection][Len(inflight[wsConnection])]

\* The handler that ran last was responseReceived for an id without a stored
\* request, and its response is the newest entry of the tab's buffer.
UnknownResponseRetained ==
  LET buf == MapGetOr(allNetworkRequests, lastOp.tabId, <<>>)
  IN /\ buf # <<>>
     /\ buf[Len(buf)].uid = lastOp.uid
     /\ buf[Len(buf)].type = "response"
     /\ buf[Len(buf)].id = lastOp.id

\* C9 (as stated): a response whose requestId has no stored request is
\* retained in the tab's network buffer and forwarded to the bridge (read in
\* its favour: forwarded when the bridge is connected).
C9_RetainedAndForwarded ==
  (lastOp.op = "responseReceived" /\ ~lastOp.known)
  => /\ UnknownResponseRetained
     /\ lastOp.open => lastOp.uid \in InFlightUids

\* C9 (amended): a response whose requestId has no stored request, and that
\* the exclusion filter does not reject, is retained in the tab's network
\* buffer and, when the bridge is connected, sent to it as network_response;
\* GET_TAB_NETWORK answers with the tab's buffer, and get_network sends it to
\* a connected bridge, so both return the response while it is in the buffer.
C9_UnknownResponseQueryable ==
  /\ (lastOp.op = "responseReceived" /\ ~lastOp.known /\ ~lastOp.excluded)
     => /\ UnknownResponseRetained
        /\ lastOp.open => /\ LastSent.type = "network_response"
                          /\ LastSent.data.uid = lastOp.uid
        /\ ~lastOp.open => lastOp.uid \notin InFlightUids
  /\ lastOp.op = "GET_TAB_NETWORK"
     => lastReply = [requests |-> MapGetOr(allNetworkRequests, lastOp.tabId, <<>>)]
  /\ (lastOp.op = "get_network" /\ lastOp.open)
     => /\ LastSent.type = "network"
        /\ LastSent.data = MapGetOr(allNetworkRequests, lastOp.tabId, <<>>)

\* get_network has just answered on a connected bridge with a buffer that
\* holds a response for an id no requestWillBeSent was ever delivered for, and
\* the network_response message of that response is in flight too.
C9_Witness ==
  /\ lastOp.op = "get_network"
  /\ lastOp.open
  /\ \E i \in 1..Len(LastSent.data) :
        /\ LastSent.data[i].type = "response"
        /\ protoLog[<<LastSent.data[i].id, "request">>] = 0
        /\ LastSent.data[i].uid \in InFlightUids

\* C10: for every requestId a network buffer (a tab's buffer of the service
\* worker, the aggregator's capturedData.network) holds at most one request
\* and at most one event among response and failure, whatever lifecycle
\* events the protocol delivers for the id.
C10_OnePerCorrelationId ==
  \A id \in RequestIds :
     /\ \A t \in DOMAIN allNetworkRequests :
           /\ CountIn(allNetworkRequests[t],
                      LAMBDA e : e.id = id /\ e.type = "request") <= 1
           /\ CountIn(allNetworkRequests[t],
                      LAMBDA e : e.id = id /\ e.type \in {"response", "failure"}) <= 1
     /\ CountIn(capturedData.network,
                LAMBDA e : e.id = id /\ e.type = "request") <= 1
     /\ CountIn(capturedData.network,
                LAMBDA e : e.id = id /\ e.type \in {"response", "failure"}) <= 1

(***************************************************************************)
(* The exclusion filter on the lifecycle of two requests: r1, which the    *)
(* filter keeps, and r2, an image, which it rejects.  The response carries *)
(* the resource type and the URL of its request.                           *)
(***************************************************************************)
FilterRequests == {<<"r1", "XHR", UrlApi>>, <<"r2", "Image", UrlPng>>}

NextFilter ==
  \/ \E e \in FilterRequests : OnRequestWillBeSent("t1", e[1], e[2], e[3])
  \/ \E e \in FilterRequests : OnResponseReceived("t1", e[1], e[2], e[3], 500)
  \/ \E e \in FilterRequests : OnLoadingFailed("t1", e[1])
  \/ TabLoading("t1")

SpecFilter == InitNetEmpty /\ [][NextFilter]_vars

\* The ids whose requestWillBeSent the filter has rejected (no command has
\* emptied pendingRequests).
ExcludedIds ==
  {id \in RequestIds : protoLog[<<id, "request">>] > 0 /\ ~MapHas(pendingRequests, id)}

\* C11: no network event of a request that the exclusion filter rejects is
\* retained in a tab's network buffer or in flight to the bridge: not the
\* request, not its response and not its failure.
C11_ExcludedNeverRetained ==
  /\ \A t \in DOMAIN allNetworkRequests :
        \A i \in 1..Len(allNetworkRequests[t]) :
           allNetworkRequests[t][i].id \notin ExcludedIds
  /\ \A s \in SocketIds :
        \A i \in 1..Len(inflight[s]) :
           inflight[s][i].type \in EventTypes => inflight[s][i].data.id \notin ExcludedIds

(***************************************************************************)
(* startNetworkCapture (part_003:71-82) and its two callers.  The function *)
(* tests isCapturing, then awaits chrome.debugger.attach and the           *)
(* Network.enable command; isCapturing is set after both.  A call that is  *)
(* waiting for the debugger is a record of captureCalls.                   *)
(***************************************************************************)
\* The caller's continuation: sendResponse({success: true}) for
\* START_NETWORK_CAPTURE (part_003:391-396), sendToBridge(capture_started)
\* for start_capture (part_003:335-339).
CaptureReturned(via, requestId) ==
  IF via = "bridge"
  THEN /\ inflight' = sendToBridge([type |-> "capture_started", requestId |-> requestId])
       /\ UNCHANGED lastReply
  ELSE /\ lastReply' = [success |-> TRUE]
       /\ UNCHANGED inflight

\* if (isCapturing.get(tabId)) return;
AlreadyCapturing(tabId) == MapGetOr(isCapturing, tabId, FALSE)

\* START_NETWORK_CAPTURE (via "runtime") or start_capture received on an open
\* socket (via "bridge"): startNetworkCapture(tabId) up to its first await.
StartCapture(tabId, via, requestId) ==
  /\ budget > 0
  /\ budget' = budget - 1
  /\ via = "bridge" => \E s \in SocketIds : sockets[s].readyState = "OPEN"
  /\ IF AlreadyCapturing(tabId)
     THEN /\ CaptureReturned(via, requestId)
          /\ UNCHANGED <<captureCalls, attachLog>>
     ELSE /\ captureCalls' = captureCalls \cup
                {[id |-> nextUid, tabId |-> tabId, pc |-> "attach", via |-> via,
                  requestId |-> requestId]}
          /\ attachLog' = [attachLog EXCEPT ![tabId] = @ + 1]
          /\ UNCHANGED <<inflight, lastReply>>
  /\ nextUid' = nextUid + 1
  /\ lastOp' = [op |-> "startNetworkCapture", tabId |-> tabId, via |-> via,
                requestId |-> requestId, noop |-> AlreadyCapturing(tabId)]
  /\ UNCHANGED <<allErrors, allNetworkRequests, pendingRequests, isCapturing,
                 excludedResourceTypes, excludedPatterns, tabState, extVars, debuggerState, pendingBody,
                 netLog, protoLog>>
  /\ UNCHANGED <<bridgeVars, aggVars, contentVars, unsent, delivered>>

\* chrome.debugger.attach of call c resolves: the debugger was not attached
\* to the tab.  The call goes on to send Network.enable.
AttachResolved(c) ==
  /\ c \in captureCalls
  /\ c.pc = "attach"
  /\ debuggerState[c.tabId] = "detached"
  /\ debuggerState' = [debuggerState EXCEPT ![c.tabId] = "attached"]
  /\ captureCalls' = (captureCalls \ {c}) \cup {[c EXCEPT !.pc = "enable"]}
  /\ lastOp' = [op |-> "attachResolved", tabId |-> c.tabId]
  /\ UNCHANGED <<allErrors, allNetworkRequests, pendingRequests, isCapturing,
                 excludedResourceTypes, excludedPatterns, tabState, extVars, attachLog, pendingBody,
                 lastReply, netLog, protoLog>>
  /\ UNCHANGED <<bridgeVars, inflight, aggVars, contentVars,
                 nextUid, budget, unsent, delivered>>

\* chrome.debugger.attach of call c rejects because a debugger is attached
\* to the tab already: the catch block logs, and the call returns.
AttachRejected(c) ==
  /\ c \in captureCalls
  /\ c.pc = "attach"
  /\ debuggerState[c.tabId] # "detached"
  /\ captureCalls' = captureCalls \ {c}
  /\ CaptureReturned(c.via, c.requestId)
  /\ lastOp' = [op |-> "attachRejected", tabId |-> c.tabId, via |-> c.via,
                requestId |-> c.requestId]
  /\ UNCHANGED <<allErrors, allNetworkRequests, pendingRequests, isCapturing,
                 excludedResourceTypes, excludedPatterns, tabState, extVars, debuggerState, attachLog,
                 pendingBody, netLog, protoLog>>
  /\ UNCHANGED <<bridgeVars, aggVars, contentVars, nextUid, budget, unsent, delivered>>

\* Network.enable of call c resolves: isCapturing.set(tabId, true).
EnableResolved(c) ==
  /\ c \in captureCalls
  /\ c.pc = "enable"
  /\ debuggerState[c.tabId] # "detached"
  /\ debuggerState' = [debuggerState EXCEPT ![c.tabId] = "enabled"]
  /\ isCapturing' = MapSet(isCapturing, c.tabId, TRUE)
  /\ captureCalls' = captureCalls \ {c}
  /\ CaptureReturned(c.via, c.requestId)
  /\ lastOp' = [op |-> "enableResolved", tabId |-> c.tabId, via |-> c.via,
                requestId |-> c.requestId]
  /\ UNCHANGED <<allErrors, allNetworkRequests, pendingRequests,
                 excludedResourceTypes, excludedPatterns, tabState, extVars, attachLog, pendingBody,
                 netLog, protoLog>>
  /\ UNCHANGED <<bridgeVars, aggVars, contentVars, nextUid, budget, unsent, delivered>>

InitCapture ==
  /\ InitBg /\ InitBridgeSettled /\ InitAgg /\ InitContent /\ InitHist

NextCapture ==
  \/ \E t \in Tabs : StartCapture(t, "runtime", "none")
  \/ \E t \in Tabs : StartCapture(t, "bridge", "q1")
  \/ \E c \in captureCalls : AttachResolved(c)
  \/ \E c \in captureCalls : AttachRejected(c)
  \/ \E c \in captureCalls : EnableResolved(c)

SpecCapture == InitCapture /\ [][NextCapture]_vars

\* C12: starting network capture for a tab that is attached already, or for
\* which a start is in progress, is a no-op: for any interleaving of
\* START_NETWORK_CAPTURE and start_capture commands at most one attach command
\* is issued for a tab that was detached.
C12_AttachIssuedOnce == \A t \in Tabs : attachLog[t] <= 1

\* JSON.parse of a persisted file: the two buffers it holds (none before the
\* first write).
ParsedBuffers(file) ==
  IF file = Undefined THEN [errors |-> <<>>, network |-> <<>>]
  ELSE [errors |-> file.errors, network |-> file.network]

\* C13: after the aggregator has handled a state-mutating input, with file
\* writes that succeed, each persisted file holds the in-memory state: the
\* same errors and network events in the same order.
C13_FilesHoldMemory ==
  LET memory == [errors |-> capturedData.errors, network |-> capturedData.network]
  IN /\ ParsedBuffers(homeFile) = memory
     /\ ParsedBuffers(projectFile) = memory

(***************************************************************************)
(* The aggregator's HTTP interface next to its WebSocket clients.          *)
(***************************************************************************)
\* n failed results the aggregator accepted earlier, responses with status
\* 404 and failures in turn: uids 1..n.
FilledFailed(n) ==
  [i \in 1..n |-> IF i % 2 = 1
                  THEN [id |-> "r0", type |-> "response", url |-> UrlPng, status |-> 404, uid |-> i]
                  ELSE [id |-> "r0", type |-> "failure", uid |-> i]]

InitHttp ==
  /\ InitBg /\ InitBridge /\ reachable = TRUE /\ InitContent
  /\ \E n \in {0, SUMMARY_FAILED_MAX} :
       /\ capturedData = [errors |-> <<>>, network |-> FilledFailed(n),
                          lastUpdate |-> IF n = 0 THEN Null ELSE Timestamp,
                          pageUrl |-> Null]
       /\ homeFile = IF n = 0 THEN Undefined ELSE JsonStringify(capturedData)
       /\ projectFile = homeFile
       /\ aggErrLog = <<>>
       /\ aggNetLog = capturedData.network
       /\ nextUid = n + 1
  /\ httpResponse = Undefined
  /\ budget = MaxEvents
  /\ unsent = {}
  /\ delivered = <<>>
  /\ lastOp = [op |-> "start"]

HttpMessages ==
  {[type |-> "console_error", data |-> Null],
   [type |-> "network_request", data |-> [id |-> "r1", type |-> "request", url |-> UrlApi]],
   [type |-> "network_request", data |-> [id |-> "r2", type |-> "request", url |-> UrlApi]],
   [type |-> "network_response",
    data |-> [id |-> "r1", type |-> "response", url |-> UrlApi, status |-> 500]],
   [type |-> "network_response",
    data |-> [id |-> "r2", type |-> "response", url |-> UrlApi, status |-> 200]],
   [type |-> "network_failure", data |-> [id |-> "r1", type |-> "failure"]]}
HttpIngestBodies == {[type |-> "server_error", data |-> ServerEvent],
                     [type |-> "console_error", data |-> ServerEvent]}

NextHttp ==
  \/ \E m \in HttpMessages : AggClientMessage(m.type, m.data, TRUE, TRUE)
  \/ \E b \in HttpIngestBodies : HttpIngest(b, TRUE, TRUE)
  \/ HttpClear(TRUE, TRUE)
  \/ \E path \in HttpPaths : HttpGet(path)

SpecHttp == InitHttp /\ [][NextHttp]_vars

\* C14: GET /clear leaves both buffers empty and both files holding empty
\* arrays, a GET /data right after it returns empty arrays, and GET /data,
\* /errors, /network, /summary leave capturedData and both files as they were.
C14_ClearAndReadOnly ==
  /\ lastOp.op = "GET /clear" =>
       /\ capturedData.errors = <<>> /\ capturedData.network = <<>>
       /\ ParsedBuffers(homeFile) = [errors |-> <<>>, network |-> <<>>]
       /\ ParsedBuffers(projectFile) = [errors |-> <<>>, network |-> <<>>]
  /\ lastOp.op = "GET" =>
       /\ capturedData = lastOp.before.capturedData
       /\ homeFile = lastOp.before.homeFile
       /\ projectFile = lastOp.before.projectFile
       /\ (lastOp.afterClear /\ lastOp.path = "/data") =>
            httpResponse.body.errors = <<>> /\ httpResponse.body.network = <<>>

(***************************************************************************)
(* Bridge commands with and without message.tabId.  With a tabId the       *)
(* handler runs to its end when the message arrives; without one it waits  *)
(* for getActiveTabId() and other handlers run in between.                 *)
(***************************************************************************)
SomeSocketOpen == \E s \in SocketIds : sockets[s].readyState = "OPEN"
AwaitingCommands == {"get_errors", "get_network", "get_all", "clear"}

\* The tab's buffers as get_all reports them.
TabData(tabId) ==
  [errors |-> MapGetOr(allErrors, tabId, <<>>),
   network |-> MapGetOr(allNetworkRequests, tabId, <<>>)]
NoData == [errors |-> <<>>, network |-> <<>>]

\* An event of the tab was captured after the event or call numbered uid.
CapturedSince(tabId, uid) ==
  \/ \E i \in 1..Len(TabData(tabId).errors) : TabData(tabId).errors[i].uid > uid
  \/ \E i \in 1..Len(TabData(tabId).network) : TabData(tabId).network[i].uid > uid

\* History: the waiting clear call c has seen a later get_all for tabId
\* answered with data that was there when c arrived.
NoteOvertaken(c, type, tabId) ==
  IF /\ c.pc = "query" /\ c.type = "clear" /\ type = "get_all"
     /\ TabData(tabId) # NoData /\ ~CapturedSince(tabId, c.id)
  THEN [c EXCEPT !.overtaken = @ \cup {tabId}]
  ELSE c

\* A command that carries message.tabId: no await is reached.
CommandWithTab(type, requestId, tabId) ==
  /\ budget > 0
  /\ SomeSocketOpen
  /\ budget' = budget - 1
  /\ BridgeCommandEffect(type, requestId, tabId)
  /\ captureCalls' = {NoteOvertaken(c, type, tabId) : c \in captureCalls}
  /\ lastOp' = [op |-> type, tabId |-> tabId, requestId |-> requestId,
                awaited |-> FALSE, overtaken |-> FALSE,
                afterClear |-> lastOp.op = "clear" /\ lastOp.tabId = tabId,
                data |-> TabData(tabId),
                before |-> [allErrors |-> allErrors,
                            allNetworkRequests |-> allNetworkRequests]]
  /\ UNCHANGED <<isCapturing, excludedResourceTypes, excludedPatterns, tabState, extVars,
                 debuggerState, attachLog, pendingBody, lastReply, protoLog>>
  /\ UNCHANGED <<bridgeVars, aggVars, contentVars, nextUid, unsent, delivered>>

\* A command without message.tabId: the handler stops at
\* await getActiveTabId().  A type without a branch reaches no await.
CommandReceived(type, requestId) ==
  /\ budget > 0
  /\ SomeSocketOpen
  /\ budget' = budget - 1
  /\ captureCalls' = IF type \in AwaitingCommands
                     THEN captureCalls \cup {[id |-> nextUid, pc |-> "query", type |-> type,
                                              requestId |-> requestId, overtaken |-> {}]}
                     ELSE captureCalls
  /\ nextUid' = nextUid + 1
  /\ lastOp' = [op |-> "received", type |-> type, requestId |-> requestId,
                before |-> [allErrors |-> allErrors,
                            allNetworkRequests |-> allNetworkRequests,
                            inflight |-> inflight]]
  /\ UNCHANGED <<allErrors, allNetworkRequests, pendingRequests, isCapturing,
                 excludedResourceTypes, excludedPatterns, tabState, extVars, debuggerState, attachLog,
                 pendingBody, lastReply, netLog, protoLog>>
  /\ UNCHANGED <<bridgeVars, inflight, aggVars, contentVars, unsent, delivered>>

\* chrome.tabs.query answers the oldest waiting call c with the active tab
\* (NoTab: the window has none), and the handler runs to its end.
ActiveTabResolved(c, activeTab) ==
  /\ c \in captureCalls
  /\ c.pc = "query"
  /\ \A d \in captureCalls : d.pc = "query" => c.id <= d.id
  /\ BridgeCommandEffect(c.type, c.requestId, activeTab)
  /\ captureCalls' = {NoteOvertaken(d, c.type, activeTab) : d \in captureCalls \ {c}}
  /\ lastOp' = [op |-> c.type, tabId |-> activeTab, requestId |-> c.requestId,
                awaited |-> TRUE, overtaken |-> activeTab \in c.overtaken,
                afterClear |-> lastOp.op = "clear" /\ lastOp.tabId = activeTab,
                data |-> TabData(activeTab),
                before |-> [allErrors |-> allErrors,
                            allNetworkRequests |-> allNetworkRequests]]
  /\ UNCHANGED <<isCapturing, excludedResourceTypes, excludedPatterns, tabState, extVars,
                 debuggerState, attachLog, pendingBody, lastReply, protoLog>>
  /\ UNCHANGED <<bridgeVars, aggVars, contentVars, nextUid, budget, unsent, delivered>>

InitCommands == InitNetEmpty /\ reachable = TRUE

NextCommands ==
  \/ \E t \in Tabs : ErrorCaptured(t, "TypeError: x.map is not a function")
  \/ OnRequestWillBeSent("t2", "r1", "XHR", UrlApi)
  \/ \E ty \in {"get_all", "clear", "ping"}, t \in Tabs : CommandWithTab(ty, "q1", t)
  \/ \E ty \in {"get_all", "clear", "ping"} : CommandReceived(ty, "q2")
  \/ \E c \in captureCalls, t \in Tabs \cup {NoTab} : ActiveTabResolved(c, t)

SpecCommands == InitCommands /\ [][NextCommands]_vars

\* C15: a get_all for a tab that follows a clear for the same tab, with no
\* event of the tab captured in between, reports empty errors and network
\* arrays, and a clear leaves the buffers of every other tab as they were.
C15_ClearThenGetAll ==
  /\ (lastOp.op = "get_all" /\ lastOp.afterClear) => lastOp.data = NoData
  /\ lastOp.op = "clear" =>
       /\ ~lastOp.overtaken
       /\ \A t \in Tabs \ {lastOp.tabId} :
            /\ MapGetOr(allErrors, t, <<>>) = MapGetOr(lastOp.before.allErrors, t, <<>>)
            /\ MapGetOr(allNetworkRequests, t, <<>>)
                 = MapGetOr(lastOp.before.allNetworkRequests, t, <<>>)

(***************************************************************************)
(* Messages of a type without a case, on both ends of the transport: the   *)
(* aggregator also receives the replies the extension sends to commands.   *)
(***************************************************************************)
AggKnownTypes == {"console_error", "network_request", "network_response", "network_failure"}
BridgeKnownTypes == {"get_errors", "get_network", "get_all", "clear", "start_capture"}

NextUnknown ==
  \/ ErrorCaptured("t1", "TypeError: x.map is not a function")
  \/ \E s \in SocketIds : AggOnMessage(s, TRUE, TRUE)
  \/ \E ty \in {"get_all", "ping"} : CommandWithTab(ty, "q1", "t1")
  \/ \E ty \in {"clear", "ping"} : CommandReceived(ty, "q2")
  \/ \E c \in captureCalls : ActiveTabResolved(c, "t1")
  \/ AggClientMessage("pong", [raw |-> [type |-> "error", message |-> "boom"]], TRUE, TRUE)

SpecUnknown == InitCommands /\ [][NextUnknown]_vars

\* C16: a message of a type without a case changes nothing.  In the
\* aggregator the step that handles it leaves capturedData and both files
\* unchanged; in the extension the step that handles it leaves both buffers
\* unchanged and sends nothing.
C16_UnknownTypeIgnored ==
  [][/\ (lastOp'.op = "ws.message" /\ lastOp'.type \notin AggKnownTypes)
          => UNCHANGED <<capturedData, homeFile, projectFile>>
     /\ (lastOp'.op \notin BridgeKnownTypes \cup {"ws.message", "received", "ERROR_CAPTURED"}
           \/ (lastOp'.op = "received" /\ lastOp'.type \notin BridgeKnownTypes))
          => UNCHANGED <<allErrors, allNetworkRequests, inflight>>]_vars

\* The extension has ignored a ping while the tab's buffer and the
\* aggregator's buffer hold an error and the bridge is connected.
C16_Witness ==
  /\ lastOp.op = "ping"
  /\ TabData("t1") # NoData
  /\ capturedData.errors # <<>>
  /\ BridgeOpen

\* C17: a success response to POST /ingest means that the body was accepted
\* as a server error event and that this event is the newest entry of
\* capturedData.errors; every other body gets an error response.
C17_IngestSuccessMeansStored ==
  (lastOp.op = "POST /ingest" /\ httpResponse.status = 200) =>
     /\ lastOp.body.type = "server_error"
     /\ lastOp.body.data # Null
     /\ capturedData.errors # <<>>
     /\ HasUid(capturedData.errors[Len(capturedData.errors)])
     /\ capturedData.errors[Len(capturedData.errors)].uid = nextUid - 1

\* GET /summary has been answered with a summary.
SummaryAnswered ==
  lastOp.op = "GET" /\ lastOp.path = "/summary" /\ httpResponse.status = 200

\* The statuses of the responses in capturedData.network with the id.
StatusesOfId(id) ==
  {capturedData.network[i].status :
     i \in {k \in 1..Len(capturedData.network) :
              IsType(capturedData.network[k], "response") /\ capturedData.network[k].id = id}}

\* C18: in the summary's recent-requests list a request is shown with the
\* status of a response that has the request's id, and as unresolved when
\* no response has its id.
C18_StatusByCorrelationId ==
  SummaryAnswered =>
    \A i \in 1..Len(httpResponse.body.recent) :
       LET line == httpResponse.body.recent[i]
       IN IF StatusesOfId(line.request.id) = {}
          THEN line.status = <<>>
          ELSE line.status # <<>> /\ line.status[1] \in StatusesOfId(line.request.id)

\* The indices of the failures and of the responses with status >= 400 in
\* capturedData.network, and those among them that have fewer than 10 after
\* them.
FailedIndices ==
  {i \in 1..Len(capturedData.network) :
     \/ capturedData.network[i].type = "failure"
     \/ capturedData.network[i].type = "response" /\ capturedData.network[i].status >= 400}
ShownIndices ==
  {i \in FailedIndices : Cardinality({k \in FailedIndices : k > i}) < 10}
NthShown(j) ==
  CHOOSE i \in ShownIndices : Cardinality({k \in ShownIndices : k < i}) = j - 1

MaxMsgLen == 4
MaxCleanings == 2
Turbopack == "[turbopack]"
Symbols == {"a", " ", "(", ")", "_", Turbopack}
RECURSIVE SeqsUpTo(_, _)
SeqsUpTo(S, n) ==
  IF n = 0 THEN {<<>>}
  ELSE LET shorter == SeqsUpTo(S, n - 1)
       IN shorter \cup {Append(s, x) : s \in {t \in shorter : Len(t) = n - 1}, x \in S}
CleanInputs == SeqsUpTo(Symbols, MaxMsgLen)

\* The subsequence of s at the positions that satisfy Keep.
KeepAt(s, Keep(_)) ==
  LET RECURSIVE Build(_)
      Build(i) == IF i = 0 THEN <<>>
                  ELSE IF Keep(i) THEN Append(Build(i - 1), s[i]) ELSE Build(i - 1)
  IN Build(Len(s))

\* cleaned.replace(/__+/g, '')
RemoveUnderscoreRuns(s) ==
  KeepAt(s, LAMBDA i : ~(/\ s[i] = "_"
                         /\ \/ (i > 1 /\ s[i - 1] = "_")
                            \/ (i < Len(s) /\ s[i + 1] = "_")))

\* cleaned.replace(/\[turbopack\]/g, '')
RemoveTurbopack(s) == KeepAt(s, LAMBDA i : s[i] # Turbopack)

\* cleaned.replace(/\s{2,}/g, ' ')
CollapseSpaces(s) == KeepAt(s, LAMBDA i : ~(s[i] = " " /\ i > 1 /\ s[i - 1] = " "))

\* cleaned.replace(/\(\s*\)/g, '')
RemoveEmptyParens(s) ==
  KeepAt(s, LAMBDA i :
    ~\E a \in 1..i, b \in i..Len(s) :
        /\ a < b /\ s[a] = "(" /\ s[b] = ")"
        /\ \A k \in (a + 1)..(b - 1) : s[k] = " ")

\* cleaned.trim()
RECURSIVE Trim(_)
Trim(s) ==
  IF s = <<>> THEN s
  ELSE IF Head(s) = " " THEN Trim(Tail(s))
  ELSE IF s[Len(s)] = " " THEN Trim(SubSeq(s, 1, Len(s) - 1))
  ELSE s

cleanErrorMessage(message) ==
  IF message = <<>> THEN message
  ELSE Trim(RemoveEmptyParens(CollapseSpaces(RemoveTurbopack(RemoveUnderscoreRuns(message)))))

\* A message of an error event reaches the cleaning rules.
InitClean ==
  /\ InitBg /\ InitBridge /\ reachable = TRUE /\ InitAgg /\ InitContent
  /\ nextUid = 1
  /\ budget = MaxCleanings
  /\ unsent = {}
  /\ delivered = <<>>
  /\ \E m \in CleanInputs : lastOp = [op |-> "message", text |-> m]

\* The rules are applied to the text at hand.
ApplyClean ==
  /\ budget > 0
  /\ budget' = budget - 1
  /\ lastOp' = [op |-> "cleaned", input |-> lastOp.text,
                text |-> cleanErrorMessage(lastOp.text)]
  /\ UNCHANGED <<bgVars, extVars, bridgeVars, inflight, aggVars, contentVars,
                 nextUid, unsent, delivered>>

NextClean == ApplyClean

SpecClean == InitClean /\ [][NextClean]_vars

\* C20: cleaning a cleaned message changes nothing: the result of the rules
\* on any message is a fixed point of the rules.
C20_CleanIdempotent ==
  lastOp.op = "cleaned" => cleanErrorMessage(lastOp.text) = lastOp.text

(***************************************************************************)
(* The console wrappers of inject.js (page world) and of content.js, the   *)
(* provisional buffer of inject.js and importEarlyErrors.  An argument of  *)
(* a console call is known by the way it converts to a string.             *)
(***************************************************************************)
EARLY_MAX == 50
ConsoleMethods == {"error", "warn"}
\* "string": a string; "circular": an object that refers to itself;
\* "nullproto": Object.create(null); "nullprotoBigInt": Object.create(null)
\* with a BigInt property.  JSON.stringify throws on a cycle and on a BigInt,
\* String() throws on an object without toString.
ArgKinds == {"string", "circular", "nullproto", "nullprotoBigInt"}
JsonThrows(kind) == kind \in {"circular", "nullprotoBigInt"}
StringThrows(kind) == kind \in {"nullproto", "nullprotoBigInt"}

\* args.map(...) of the inject.js wrappers throws: console.error tries
\* JSON.stringify and falls back to String(arg); console.warn calls String(arg).
InjectStringifyThrows(method, kind) ==
  IF kind = "string" THEN FALSE
  ELSE IF method = "error" THEN JsonThrows(kind) /\ StringThrows(kind)
  ELSE StringThrows(kind)

\* stringifyArg of content.js throws: its replacer cuts cycles, and the catch
\* falls back to String(arg).
stringifyArgThrows(kind) ==
  IF kind = "string" THEN FALSE
  ELSE kind = "nullprotoBigInt" /\ StringThrows(kind)

\* The message the wrappers build: the string itself, or the text of the
\* object ("{}" and the like), which holds none of the words console.warn
\* looks for.
ConsoleTexts == {MsgShort, <<99>>}
ObjectText == <<123, 125>>

\* Variant of EarlyPush that drops the new event when the buffer is full.
EarlyPushKeepOldest(early, e) ==
  IF Len(early) >= 50 THEN early ELSE Append(early, e)

\* earlyErrors.push(...); if (earlyErrors.length > 50) earlyErrors.shift()
EarlyPush(early, e) ==
  LET pushed == Append(early, e)
  IN IF Len(pushed) > EARLY_MAX THEN Tail(pushed) ELSE pushed

\* isDupe of addError against the array errs.
DupeIn(errs, message) ==
  \E i \in 1..Len(errs) :
     /\ MsgKey(errs[i].raw.message) = MsgKey(message)
     /\ now - errs[i].timestamp < DEDUP_WINDOW_MS

\* errors after addError(errorData) for the event numbered uid.
AddedTo(errs, errorData, uid) ==
  IF DupeIn(errs, errorData.message) THEN errs
  ELSE ContentPush(errs, [raw |-> errorData, timestamp |-> now, uid |-> uid,
                         reactType |-> identifyReactErrorType(errorData.message)])

\* captureLog after that call.
LoggedTo(log, errs, errorData, uid) ==
  Append(log, [key |-> MsgKey(errorData.message), at |-> now, uid |-> uid,
               dupe |-> DupeIn(errs, errorData.message)])

\* earlyErrors.forEach(err => addError(err)) from the array errs on.
RECURSIVE ImportInto(_, _)
ImportInto(errs, early) ==
  IF early = <<>> THEN errs
  ELSE ImportInto(AddedTo(errs, Head(early).data, Head(early).uid), Tail(early))
RECURSIVE ImportLog(_, _, _)
ImportLog(log, errs, early) ==
  IF early = <<>> THEN log
  ELSE ImportLog(LoggedTo(log, errs, Head(early).data, Head(early).uid),
                 AddedTo(errs, Head(early).data, Head(early).uid), Tail(early))

\* captureError (inject.js:16-33) called once by each of the k wrappers a
\* console call passes through: a push to the early buffer and a
\* postMessage each time.
RECURSIVE EarlyPushTimes(_, _, _)
EarlyPushTimes(early, entry, k) ==
  IF k = 0 THEN early ELSE EarlyPushTimes(EarlyPush(early, entry), entry, k - 1)

RECURSIVE PostTimes(_, _, _)
PostTimes(queue, entry, k) ==
  IF k = 0 THEN queue ELSE PostTimes(Append(queue, entry), entry, k - 1)

\* console.error / console.warn of the page, wrapped by inject.js
\* (inject.js:36-71).  Nothing catches an exception of args.map.  Each
\* execution of inject.js past its flag puts one more wrapper in front of
\* the function it found, which it calls after capturing.
PageConsole(method, kind, text, isReact) ==
  /\ budget > 0
  /\ budget' = budget - 1
  /\ LET thrown == pageWorld.wrappers > 0 /\ InjectStringifyThrows(method, kind)
         message == IF kind = "string" THEN text ELSE ObjectText
         captured == ~thrown /\ (method = "error" \/ (kind = "string" /\ isReact))
         errorData == [type |-> method, message |-> message]
         entry == [data |-> errorData, uid |-> nextUid]
     IN /\ earlyErrors' = IF captured
                          THEN EarlyPushTimes(earlyErrors, entry, pageWorld.wrappers)
                          ELSE earlyErrors
        /\ posted' = IF captured
                     THEN PostTimes(posted, entry, pageWorld.wrappers)
                     ELSE posted
        /\ lastOp' = [op |-> "console", wrapper |-> "inject.js", method |-> method,
                      kind |-> kind, thrown |-> thrown,
                      original |-> IF thrown THEN 0 ELSE 1]
  /\ nextUid' = nextUid + 1
  /\ UNCHANGED <<errors, now, ticksLeft, contentReply, captureLog, importTimers, earlyVisible, pageWorld, isolatedWorld>>
  /\ UNCHANGED <<bgVars, extVars, bridgeVars, inflight, aggVars, unsent, delivered>>

\* console.error / console.warn as wrapped by content.js (content.js:261-293).
ContentConsole(method, kind, text, isReact) ==
  /\ budget > 0
  /\ budget' = budget - 1
  /\ LET thrown == stringifyArgThrows(kind)
         message == IF kind = "string" THEN text ELSE ObjectText
         captured == ~thrown /\ (method = "error" \/ (kind = "string" /\ isReact))
         errorData == [type |-> method, message |-> message]
     IN /\ errors' = IF captured THEN AddedTo(errors, errorData, nextUid) ELSE errors
        /\ captureLog' = IF captured THEN LoggedTo(captureLog, errors, errorData, nextUid)
                         ELSE captureLog
        /\ lastOp' = [op |-> "console", wrapper |-> "content.js", method |-> method,
                      kind |-> kind, thrown |-> thrown,
                      original |-> IF thrown THEN 0 ELSE 1]
  /\ nextUid' = nextUid + 1
  /\ UNCHANGED <<now, ticksLeft, contentReply, pageVars>>
  /\ UNCHANGED <<bgVars, extVars, bridgeVars, inflight, aggVars, unsent, delivered>>

\* The 'message' listener of content.js (content.js:426-432) receives the
\* oldest posted message; before content.js has run nothing listens.
PostedReceived ==
  /\ posted # <<>>
  /\ errors' = IF isolatedWorld.listeners > 0
               THEN AddedTo(errors, Head(posted).data, Head(posted).uid)
               ELSE errors
  /\ captureLog' = IF isolatedWorld.listeners > 0
                   THEN LoggedTo(captureLog, errors, Head(posted).data, Head(posted).uid)
                   ELSE captureLog
  /\ posted' = Tail(posted)
  /\ lastOp' = [op |-> "posted", uid |-> Head(posted).uid]
  /\ UNCHANGED <<now, ticksLeft, contentReply, importTimers, earlyVisible, earlyErrors, pageWorld,
               isolatedWorld>>
  /\ UNCHANGED <<bgVars, extVars, bridgeVars, inflight, aggVars, nextUid, budget, unsent, delivered>>

\* importEarlyErrors (content.js:434-441).  The assignment at its end binds
\* the content script's window property to a new array; the array that
\* inject.js pushes to is the one its const earlyErrors names.
importEarlyErrors ==
  /\ importTimers > 0
  /\ importTimers' = importTimers - 1
  /\ LET early == IF earlyVisible THEN earlyErrors ELSE <<>>
     IN /\ errors' = ImportInto(errors, early)
        /\ captureLog' = ImportLog(captureLog, errors, early)
        /\ lastOp' = [op |-> "importEarlyErrors", imported |-> Len(early)]
  /\ earlyVisible' = FALSE
  /\ UNCHANGED <<now, ticksLeft, contentReply, earlyErrors, posted, pageWorld, isolatedWorld>>
  /\ UNCHANGED <<bgVars, extVars, bridgeVars, inflight, aggVars, nextUid, budget, unsent, delivered>>

\* The content script has run its body: both import timers are pending.  The
\* window object it sees shares the property with the page or does not.
InitEarly ==
  /\ InitBg /\ InitBridge /\ reachable = TRUE /\ InitAgg
  /\ errors = <<>>
  /\ now = 0
  /\ ticksLeft = MaxTicks
  /\ contentReply = Undefined
  /\ captureLog = <<>>
  /\ importTimers = 2
  /\ InitWorlds
  /\ earlyVisible \in BOOLEAN
  /\ earlyErrors = <<>>
  /\ posted = <<>>
  /\ nextUid = 1
  /\ budget = MaxCaptures
  /\ unsent = {}
  /\ delivered = <<>>
  /\ lastOp = [op |-> "start"]

NextEarly ==
  \/ \E m \in ConsoleMethods, k \in ArgKinds, t \in ConsoleTexts, r \in BOOLEAN :
       PageConsole(m, k, t, r)
  \/ \E m \in ConsoleMethods, k \in ArgKinds : ContentConsole(m, k, MsgShort, TRUE)
  \/ PostedReceived
  \/ importEarlyErrors

SpecEarly == InitEarly /\ [][NextEarly]_vars

\* C21: a call of a wrapped console.error or console.warn reaches the
\* original function once and throws nothing to its caller, whatever the
\* arguments are.
C21_OriginalCalledOnce ==
  lastOp.op = "console" => (lastOp.original = 1 /\ ~lastOp.thrown)

\* The uids of the events that were handed to addError.
AddErrorUids == {captureLog[i].uid : i \in 1..Len(captureLog)}

\* C22: an import hands every event of the provisional buffer to addError
\* and leaves the provisional buffer empty, and no event is in the agent's
\* buffer twice.
C22_EarlyImportedOnce ==
  /\ lastOp.op = "importEarlyErrors" =>
       /\ earlyErrors = <<>>
       /\ \A i \in 1..Len(earlyErrors) : earlyErrors[i].uid \in AddErrorUids
  /\ \A i, j \in 1..Len(errors) : errors[i].uid = errors[j].uid => i = j

\* C23: an event in a tab's array equals the event as it was appended, and
\* equals the copy of it that was forwarded to the aggregator, response body
\* included.
C23_EventsImmutable ==
  \A t \in DOMAIN allNetworkRequests :
    \A i \in 1..Len(allNetworkRequests[t]) :
      LET e == allNetworkRequests[t][i]
          log == MapGetOr(netLog, t, <<>>)
      IN /\ \A k \in 1..Len(log) : log[k].uid = e.uid => log[k] = e
         /\ \A s \in SocketIds : \A k \in 1..Len(inflight[s]) :
              (/\ inflight[s][k].type \in {"network_request", "network_response",
                                           "network_failure"}
               /\ inflight[s][k].data.uid = e.uid)
              => inflight[s][k].data = e

(***************************************************************************)
(* Tab lifecycle (part_003:453-473).  The browser closes a tab; it queues  *)
(* chrome.tabs.onRemoved and, for a tab the debugger is attached to,       *)
(* chrome.debugger.onDetach, preceded or not by a debugger event that was  *)
(* produced before the tab went away.  The events of the debugger come in  *)
(* their order; onRemoved is another event source.                         *)
(***************************************************************************)
TabClosed(tabId, late) ==
  /\ ~tabState[tabId].closed
  /\ tabState[tabId].pending = {}
  /\ late => debuggerState[tabId] = "enabled"
  /\ tabState' = [tabState EXCEPT ![tabId] =
       [closed |-> TRUE,
        pending |-> {"onRemoved"}
                    \cup (IF debuggerState[tabId] # "detached" THEN {"onDetach"} ELSE {})
                    \cup (IF late THEN {"onEvent"} ELSE {})]]
  /\ debuggerState' = [debuggerState EXCEPT ![tabId] = "detached"]
  /\ lastOp' = [op |-> "tabClosed", tabId |-> tabId]
  /\ UNCHANGED <<allErrors, allNetworkRequests, pendingRequests, isCapturing,
                 excludedResourceTypes, excludedPatterns, captureCalls, attachLog,
                 pendingBody, lastReply, netLog, protoLog>>
  /\ UNCHANGED <<bridgeVars, inflight, aggVars, contentVars, extVars,
                 nextUid, budget, unsent, delivered>>

\* chrome.tabs.onRemoved listener (part_003:453-458).
TabRemoved(tabId) ==
  /\ "onRemoved" \in tabState[tabId].pending
  /\ tabState' = [tabState EXCEPT ![tabId].pending = @ \ {"onRemoved"}]
  /\ allErrors' = MapDelete(allErrors, tabId)
  /\ allNetworkRequests' = MapDelete(allNetworkRequests, tabId)
  /\ netLog' = MapDelete(netLog, tabId)
  /\ isCapturing' = MapDelete(isCapturing, tabId)
  /\ lastOp' = [op |-> "tabRemoved", tabId |-> tabId]
  /\ UNCHANGED <<pendingRequests, excludedResourceTypes, excludedPatterns, debuggerState,
                 captureCalls, attachLog, pendingBody, lastReply, protoLog>>
  /\ UNCHANGED <<bridgeVars, inflight, aggVars, contentVars, extVars,
                 nextUid, budget, unsent, delivered>>

\* Variant of the onDetach listener that only logs.
DebuggerDetachedLogged(tabId) ==
  /\ "onDetach" \in tabState[tabId].pending
  /\ "onEvent" \notin tabState[tabId].pending
  /\ tabState' = [tabState EXCEPT ![tabId].pending = @ \ {"onDetach"}]
  /\ lastOp' = [op |-> "debuggerDetached", tabId |-> tabId]
  /\ UNCHANGED <<allErrors, allNetworkRequests, pendingRequests, isCapturing,
                 excludedResourceTypes, excludedPatterns, debuggerState, captureCalls,
                 attachLog, pendingBody, lastReply, netLog, protoLog>>
  /\ UNCHANGED <<bridgeVars, inflight, aggVars, contentVars, extVars,
                 nextUid, budget, unsent, delivered>>

\* chrome.debugger.onDetach listener (part_003:469-473).
DebuggerDetached(tabId) ==
  /\ "onDetach" \in tabState[tabId].pending
  /\ "onEvent" \notin tabState[tabId].pending
  /\ tabState' = [tabState EXCEPT ![tabId].pending = @ \ {"onDetach"}]
  /\ isCapturing' = MapSet(isCapturing, tabId, FALSE)
  /\ lastOp' = [op |-> "debuggerDetached", tabId |-> tabId]
  /\ UNCHANGED <<allErrors, allNetworkRequests, pendingRequests, excludedResourceTypes,
                 excludedPatterns, debuggerState, captureCalls, attachLog, pendingBody,
                 lastReply, netLog, protoLog>>
  /\ UNCHANGED <<bridgeVars, inflight, aggVars, contentVars, extVars,
                 nextUid, budget, unsent, delivered>>

\* A debugger event of the tab that was queued when the tab went away
\* (Network.dataReceived, Network.loadingFinished of an unknown request, ...):
\* the chrome.debugger.onEvent listener creates the tab's array
\* (part_003:98-104) and finds nothing to record.
LateDebuggerEvent(tabId) ==
  /\ "onEvent" \in tabState[tabId].pending
  /\ tabState' = [tabState EXCEPT ![tabId].pending = @ \ {"onEvent"}]
  /\ allNetworkRequests' =
       MapSet(allNetworkRequests, tabId, MapGetOr(allNetworkRequests, tabId, <<>>))
  /\ netLog' = MapSet(netLog, tabId, MapGetOr(netLog, tabId, <<>>))
  /\ lastOp' = [op |-> "lateDebuggerEvent", tabId |-> tabId]
  /\ UNCHANGED <<allErrors, pendingRequests, isCapturing, excludedResourceTypes,
                 excludedPatterns, debuggerState, captureCalls, attachLog, pendingBody,
                 lastReply, protoLog>>
  /\ UNCHANGED <<bridgeVars, inflight, aggVars, contentVars, extVars,
                 nextUid, budget, unsent, delivered>>

\* Capture runs on every tab; the buffers are empty.
InitTabs == InitNetEmpty

NextTabs ==
  \/ \E t \in Tabs : OnRequestWillBeSent(t, "r1", "XHR", UrlApi)
  \/ \E t \in Tabs : ~tabState[t].closed /\ ErrorCaptured(t, "Warning: hydration mismatch")
  \/ \E t \in Tabs : ~tabState[t].closed /\ TabLoading(t)
  \/ \E t \in Tabs, late \in BOOLEAN : TabClosed(t, late)
  \/ \E t \in Tabs : TabRemoved(t)
  \/ \E t \in Tabs : DebuggerDetached(t)
  \/ \E t \in Tabs : LateDebuggerEvent(t)

SpecTabs == InitTabs /\ [][NextTabs]_vars

\* The tabs whose chrome.tabs.onRemoved listener has run.
RemovedTabs == {t \in Tabs : tabState[t].closed /\ "onRemoved" \notin tabState[t].pending}

\* C24: a tab that starts loading has no error and no network buffer left,
\* and a tab whose removal the service worker has handled has no entry in
\* allErrors, allNetworkRequests or isCapturing in any later state, whatever
\* the order of the removal, the detach and the late debugger events.
C24_NoStateAfterClose ==
  /\ lastOp.op = "tabLoading" =>
       /\ ~MapHas(allErrors, lastOp.tabId)
       /\ ~MapHas(allNetworkRequests, lastOp.tabId)
  /\ \A t \in RemovedTabs :
       /\ ~MapHas(allErrors, t)
       /\ ~MapHas(allNetworkRequests, t)
       /\ ~MapHas(isCapturing, t)

\* C25: the producer's disconnect and reconnect change nothing in the
\* aggregator: every close event of a socket, every run of the reconnect
\* timer and every open event leaves capturedData as it was, so the errors
\* and the network events held before the disconnect are the ones held after
\* the reconnect, none lost and none twice.
C25_ReconnectKeepsData ==
  [][lastOp'.op \in {"onclose", "reconnectTimer", "onopen"} => capturedData' = capturedData]_vars

\* The connection dropped and came back while the aggregator held events.
C25_Witness ==
  /\ lastOp.op = "onopen"
  /\ dropsLeft < MaxDrops
  /\ capturedData.errors # <<>>
  /\ capturedData.network # <<>>

\* The uids of the events of a buffer that carry one, in buffer order.
UidsOf(buffer) ==
  LET held == SelectSeq(buffer, LAMBDA e : HasUid(e))
  IN [i \in 1..Len(held) |-> held[i].uid]

\* The producer numbers the events in the order in which it retains them.
Ascending(uids) == \A i, j \in 1..Len(uids) : i < j => uids[i] < uids[j]

\* C26: the events of the aggregator's errors buffer, and those of its
\* network buffer, stand in the order in which the producer retained and
\* forwarded them, whatever forwards, drops and reconnects came between.
C26_OrderPreserved ==
  AggRunning =>
    /\ Ascending(UidsOf(capturedData.errors))
    /\ Ascending(UidsOf(capturedData.network))

\* Two events delivered on two connections, a drop between them.
C26_Witness ==
  /\ AggRunning
  /\ Len(capturedData.network) >= 2
  /\ dropsLeft < MaxDrops
  /\ unsent # {}

(***************************************************************************)
(* The five commands of handleBridgeMessage and their replies              *)
(* (part_003:292-340).  start_capture without message.tabId awaits         *)
(* getActiveTabId() and then startNetworkCapture(tabId).                   *)
(***************************************************************************)
\* start_capture without message.tabId arrives: the handler stops at
\* await getActiveTabId().
StartCaptureReceived(requestId) ==
  /\ budget > 0
  /\ SomeSocketOpen
  /\ budget' = budget - 1
  /\ captureCalls' = captureCalls \cup
       {[id |-> nextUid, pc |-> "query", type |-> "start_capture",
         requestId |-> requestId, overtaken |-> {}]}
  /\ nextUid' = nextUid + 1
  /\ lastOp' = [op |-> "received", type |-> "start_capture", requestId |-> requestId]
  /\ UNCHANGED <<allErrors, allNetworkRequests, pendingRequests, isCapturing,
                 excludedResourceTypes, excludedPatterns, tabState, extVars, debuggerState, attachLog,
                 pendingBody, lastReply, netLog, protoLog>>
  /\ UNCHANGED <<bridgeVars, inflight, aggVars, contentVars, unsent, delivered>>

\* chrome.tabs.query answers the waiting start_capture call c.  With no
\* active tab chrome.debugger.attach({tabId: undefined}) throws, the catch of
\* startNetworkCapture logs and the reply is sent; with a tab the call goes
\* on as StartCapture does.
StartCaptureActive(c, activeTab) ==
  /\ c \in captureCalls
  /\ c.pc = "query"
  /\ c.type = "start_capture"
  /\ \A d \in captureCalls : d.pc = "query" => c.id <= d.id
  /\ LET returns == activeTab = NoTab \/ AlreadyCapturing(activeTab)
     IN /\ IF returns
           THEN /\ CaptureReturned("bridge", c.requestId)
                /\ captureCalls' = captureCalls \ {c}
                /\ UNCHANGED attachLog
           ELSE /\ captureCalls' = (captureCalls \ {c}) \cup
                     {[id |-> c.id, tabId |-> activeTab, pc |-> "attach", via |-> "bridge",
                       requestId |-> c.requestId]}
                /\ attachLog' = [attachLog EXCEPT ![activeTab] = @ + 1]
                /\ UNCHANGED <<inflight, lastReply>>
        /\ lastOp' = [op |-> "startNetworkCapture", tabId |-> activeTab, via |-> "bridge",
                      requestId |-> c.requestId, noop |-> returns]
  /\ UNCHANGED <<allErrors, allNetworkRequests, pendingRequests, isCapturing,
                 excludedResourceTypes, excludedPatterns, tabState, extVars, debuggerState, pendingBody,
                 netLog, protoLog>>
  /\ UNCHANGED <<bridgeVars, aggVars, contentVars, nextUid, budget, unsent, delivered>>

ReplyTypes == {"errors", "network", "all_data", "cleared", "capture_started"}
ReplyTypeOf(command) ==
  IF command = "get_errors" THEN "errors"
  ELSE IF command = "get_network" THEN "network"
  ELSE IF command = "get_all" THEN "all_data"
  ELSE IF command = "clear" THEN "cleared"
  ELSE "capture_started"

InitReplies == InitCapture /\ reachable = TRUE

NextReplies ==
  \/ \E ty \in {"get_errors", "get_network", "get_all", "clear"} : CommandWithTab(ty, "q1", "t1")
  \/ \E ty \in {"get_errors", "clear"} : CommandReceived(ty, "q2")
  \/ \E c \in captureCalls :
       c.pc = "query" /\ c.type # "start_capture" /\ ActiveTabResolved(c, "t1")
  \/ StartCapture("t1", "bridge", "q3")
  \/ StartCaptureReceived("q4")
  \/ \E c \in captureCalls, t \in {"t1", NoTab} : StartCaptureActive(c, t)
  \/ \E c \in captureCalls : AttachResolved(c)
  \/ \E c \in captureCalls : AttachRejected(c)
  \/ \E c \in captureCalls : EnableResolved(c)
  \/ \E s \in SocketIds : SocketClosed(s)
  \/ ReconnectTimerFired
  \/ \E s \in SocketIds : SocketOpened(s)

SpecReplies == InitReplies /\ [][NextReplies]_vars

\* The handler of a command ran to its end in the step that led here: the
\* command whose reply is due is lastOp.op, or start_capture.
CommandCompleted(op) ==
  \/ op.op \in {"get_errors", "get_network", "get_all", "clear"}
  \/ op.op = "startNetworkCapture" /\ op.via = "bridge" /\ op.noop
  \/ op.op \in {"attachRejected", "enableResolved"} /\ op.via = "bridge"

\* The messages a step hands to the sockets.
SentOn(s, before, after) ==
  IF Len(after[s]) > Len(before[s])
  THEN SubSeq(after[s], Len(before[s]) + 1, Len(after[s]))
  ELSE <<>>

\* C27: a reply is sent only by the step that ends the handler of a
\* command, it has the reply type of that command and carries the command's
\* requestId; and the step that ends the handler of a command while the
\* socket is open sends exactly one reply.
C27_OneReplyWithRequestId ==
  [][LET sent == [s \in SocketIds |-> SentOn(s, inflight, inflight')]
         done == CommandCompleted(lastOp')
     IN /\ \A s \in SocketIds : \A i \in 1..Len(sent[s]) :
             sent[s][i].type \in ReplyTypes =>
               /\ done
               /\ sent[s][i].requestId = lastOp'.requestId
               /\ sent[s][i].type = ReplyTypeOf(lastOp'.op)
        /\ (done /\ BridgeOpen) =>
             /\ Len(sent[wsConnection]) = 1
             /\ sent[wsConnection][1].type \in ReplyTypes
             /\ \A s \in SocketIds \ {wsConnection} : sent[s] = <<>>]_vars

\* start_capture and an awaited clear have both been answered on one socket.
C27_Witness ==
  \E s \in SocketIds :
    /\ \E i \in 1..Len(inflight[s]) :
         inflight[s][i].type = "capture_started" /\ inflight[s][i].requestId = "q4"
    /\ \E i \in 1..Len(inflight[s]) :
         inflight[s][i].type = "cleared" /\ inflight[s][i].requestId = "q2"
    /\ lastOp.op = "enableResolved"

(***************************************************************************)
(* Exclusion settings (part_003:13-29, 431-449, 476-488): the popup sets   *)
(* them, chrome.storage.local keeps them, and a service worker that starts *)
(* again evaluates the module from its top and merges the stored settings  *)
(* over the defaults in the start-up callback.                             *)
(***************************************************************************)
\* Variant of the spread that keeps the first object's values.
SpreadKeepsFirst(first, second) ==
  [k \in (DOMAIN first) \cup (DOMAIN second) |->
     IF k \in DOMAIN first THEN first[k] ELSE second[k]]

\* { ...first, ...second }
Spread(first, second) ==
  [k \in (DOMAIN first) \cup (DOMAIN second) |->
     IF k \in DOMAIN second THEN second[k] ELSE first[k]]

UrlData == [path |-> "data:text/css;base64,", dataScheme |-> TRUE, base64 |-> TRUE, ext |-> ""]
SettingsUrls == {UrlApi, UrlData}

\* What saveExclusionSettings of the popup sends (popup.js:134-158): the
\* Font checkbox cleared, and the Script checkbox set with base64 cleared.
PopupSettings ==
  {[resourceTypes |-> [Font |-> FALSE, Image |-> TRUE, Stylesheet |-> FALSE,
                       Script |-> FALSE, Media |-> TRUE],
    patterns |-> [base64 |-> TRUE, fonts |-> FALSE, images |-> TRUE, sourcemaps |-> TRUE]],
   [resourceTypes |-> [Font |-> TRUE, Image |-> TRUE, Stylesheet |-> FALSE,
                       Script |-> TRUE, Media |-> TRUE],
    patterns |-> [base64 |-> FALSE, fonts |-> TRUE, images |-> TRUE, sourcemaps |-> TRUE]]}

\* chrome.runtime.onMessage SET_EXCLUSION_SETTINGS (part_003:438-449).
SetExclusionSettings(message) ==
  /\ budget > 0
  /\ budget' = budget - 1
  /\ excludedResourceTypes' = Spread(excludedResourceTypes, message.resourceTypes)
  /\ excludedPatterns' = Spread(excludedPatterns, message.patterns)
  /\ storage' = MapSet(MapSet(storage, "excludedResourceTypes", excludedResourceTypes'),
                       "excludedPatterns", excludedPatterns')
  /\ lastReply' = [success |-> TRUE]
  /\ lastOp' = [op |-> "SET_EXCLUSION_SETTINGS", resourceTypes |-> message.resourceTypes,
                patterns |-> message.patterns]
  /\ UNCHANGED <<allErrors, allNetworkRequests, pendingRequests, isCapturing, tabState, extVars,
                 debuggerState, captureCalls, attachLog, pendingBody, netLog, protoLog>>
  /\ UNCHANGED <<wsConnection, wsReconnectTimer, bridgePort, initDone, sockets, timers,
                 reachable, cmdsLeft, dropsLeft>>
  /\ UNCHANGED <<inflight, aggVars, contentVars, nextUid, unsent, delivered>>

\* chrome.runtime.onMessage GET_EXCLUSION_SETTINGS (part_003:431-436).
GetExclusionSettings ==
  /\ lastReply' = [resourceTypes |-> excludedResourceTypes, patterns |-> excludedPatterns]
  /\ lastOp' = [op |-> "GET_EXCLUSION_SETTINGS"]
  /\ UNCHANGED <<allErrors, allNetworkRequests, pendingRequests, isCapturing,
                 excludedResourceTypes, excludedPatterns, tabState, extVars,
                 debuggerState, captureCalls, attachLog, pendingBody,
                 netLog, protoLog>>
  /\ UNCHANGED <<bridgeVars, inflight, aggVars, contentVars,
                 nextUid, budget, unsent, delivered>>

\* The browser stops the service worker and starts it again: the module's
\* variables have their initial values (part_003:4-29), its socket and its
\* timer are gone, chrome.storage.local is what it was, and the start-up
\* callback (part_003:476-488) has not run yet.
Restart ==
  /\ budget > 0
  /\ budget' = budget - 1
  /\ allErrors' = EmptyMap
  /\ allNetworkRequests' = EmptyMap
  /\ netLog' = EmptyMap
  /\ pendingRequests' = EmptyMap
  /\ isCapturing' = EmptyMap
  /\ excludedResourceTypes' = DefaultExcludedResourceTypes
  /\ excludedPatterns' = DefaultExcludedPatterns
  /\ captureCalls' = {}
  /\ pendingBody' = {}
  /\ wsConnection' = 0
  /\ wsReconnectTimer' = 0
  /\ timers' = 0
  /\ bridgePort' = 9876
  /\ initDone' = FALSE
  /\ sockets' = [s \in SocketIds |-> NoSocket]
  /\ inflight' = [s \in SocketIds |-> <<>>]
  /\ lastOp' = [op |-> "restart"]
  /\ UNCHANGED <<tabState, extVars, debuggerState, attachLog, lastReply, protoLog>>
  /\ UNCHANGED <<storage, reachable, cmdsLeft, dropsLeft>>
  /\ UNCHANGED <<aggVars, contentVars, nextUid, unsent, delivered>>

InitSettings == InitNetEmpty

\* The popup saves its settings once the start-up callback has run.
NextSettings ==
  \/ \E m \in PopupSettings : initDone /\ SetExclusionSettings(m)
  \/ GetExclusionSettings
  \/ Restart
  \/ InitCallback
  \/ \E s \in SocketIds : SocketOpened(s)
  \/ \E rt \in {"Font", "Script"}, u \in SettingsUrls : OnRequestWillBeSent("t1", "r1", rt, u)

SpecSettings == InitSettings /\ [][NextSettings]_vars

NoStoredSettings ==
  ~MapHas(storage, "excludedResourceTypes") /\ ~MapHas(storage, "excludedPatterns")

\* The URL tests of shouldExcludeRequest (part_003:41-63), all enabled.
MatchesUrlPattern(url) ==
  /\ url # Undefined
  /\ \/ url.dataScheme
     \/ url.base64
     \/ url.ext \in FontExts \cup ImageExts \cup {"map"}

\* The set message took effect, and storage holds the effective settings.
SettingsPersisted ==
  /\ lastOp.op = "SET_EXCLUSION_SETTINGS" =>
       /\ \A k \in DOMAIN lastOp.resourceTypes :
            excludedResourceTypes[k] = lastOp.resourceTypes[k]
       /\ \A k \in DOMAIN lastOp.patterns : excludedPatterns[k] = lastOp.patterns[k]
       /\ storage.excludedResourceTypes = excludedResourceTypes
       /\ storage.excludedPatterns = excludedPatterns
  /\ (initDone /\ ~NoStoredSettings) =>
       /\ excludedResourceTypes = storage.excludedResourceTypes
       /\ excludedPatterns = storage.excludedPatterns

DiskMessages ==
  {[type |-> "console_error", data |-> [raw |-> [type |-> "error", message |-> "boom"]]],
   [type |-> "network_response",
    data |-> [id |-> "r1", type |-> "response", url |-> UrlApi, status |-> 500]]}

InitDisk == InitCapture

NextDisk ==
  \/ \E m \in DiskMessages, okHome, okProject \in BOOLEAN :
       AggClientMessage(m.type, m.data, okHome, okProject)
  \/ \E okHome, okProject \in BOOLEAN :
       HttpIngest([type |-> "server_error", data |-> ServerEvent], okHome, okProject)
  \/ \E okHome, okProject \in BOOLEAN : HttpClear(okHome, okProject)
  \/ \E path \in {"/data", "/errors", "/network"} : HttpGet(path)

SpecDisk == InitDisk /\ [][NextDisk]_vars

\* The handler that ran last called saveData.
Saved == lastOp.op \in {"ws.message", "POST /ingest", "GET /clear"}

\* C29: when saveData cannot write one of the two files the other file is
\* written with the current data, the handler ends normally (the process
\* runs, an HTTP caller gets status 200), the in-memory buffers hold every
\* event received since the last clear, and the HTTP endpoints report the
\* in-memory data whatever the files hold.
C29_WriteFailureIsolated ==
  /\ AggRunning
  /\ Saved =>
       /\ lastOp.disk.home => homeFile = JsonStringify(capturedData)
       /\ lastOp.disk.project => projectFile = JsonStringify(capturedData)
       /\ lastOp.op \in {"POST /ingest", "GET /clear"} => httpResponse.status = 200
  /\ capturedData.errors = aggErrLog
  /\ capturedData.network = aggNetLog
  /\ lastOp.op = "GET" =>
       httpResponse = [status |-> 200,
                       body |-> IF lastOp.path = "/data" THEN JsonStringify(capturedData)
                                ELSE IF lastOp.path = "/errors"
                                THEN JsonArray(capturedData.errors)
                                ELSE JsonArray(capturedData.network)]

\* The home file could not be written, the project file was, and the data
\* has been read over HTTP since.
C29_Witness ==
  /\ lastOp.op = "GET"
  /\ lastOp.path = "/data"
  /\ capturedData.errors # <<>>
  /\ projectFile = JsonStringify(capturedData)
  /\ homeFile # projectFile

(***************************************************************************)
(* stopNetworkCapture (part_003:84-95), the failures of the debugger       *)
(* commands, and a debugger session that ends without the extension        *)
(* asking: the user dismisses the browser's debugging bar, or the tab is   *)
(* closed.  The browser reports results and events of a tab's session in   *)
(* the order in which they happened.                                       *)
(***************************************************************************)
\* STOP_NETWORK_CAPTURE (part_003:398-403): stopNetworkCapture(tabId) up to
\* its await.
StopCapture(tabId) ==
  /\ budget > 0
  /\ budget' = budget - 1
  /\ IF ~MapGetOr(isCapturing, tabId, FALSE)
     THEN /\ lastReply' = [success |-> TRUE]
          /\ UNCHANGED captureCalls
     ELSE /\ captureCalls' = captureCalls \cup
                {[id |-> nextUid, tabId |-> tabId, pc |-> "detach", via |-> "runtime",
                  requestId |-> "none"]}
          /\ UNCHANGED lastReply
  /\ nextUid' = nextUid + 1
  /\ lastOp' = [op |-> "stopNetworkCapture", tabId |-> tabId,
                noop |-> ~MapGetOr(isCapturing, tabId, FALSE)]
  /\ UNCHANGED <<allErrors, allNetworkRequests, pendingRequests, isCapturing,
                 excludedResourceTypes, excludedPatterns, tabState, extVars, debuggerState, attachLog,
                 pendingBody, netLog, protoLog>>
  /\ UNCHANGED <<bridgeVars, inflight, aggVars, contentVars, unsent, delivered>>

\* chrome.debugger.detach of call c resolves: isCapturing.set(tabId, false).
DetachResolved(c) ==
  /\ c \in captureCalls
  /\ c.pc = "detach"
  /\ debuggerState[c.tabId] # "detached"
  /\ debuggerState' = [debuggerState EXCEPT ![c.tabId] = "detached"]
  /\ isCapturing' = MapSet(isCapturing, c.tabId, FALSE)
  /\ captureCalls' = captureCalls \ {c}
  /\ lastReply' = [success |-> TRUE]
  /\ lastOp' = [op |-> "detachResolved", tabId |-> c.tabId]
  /\ UNCHANGED <<allErrors, allNetworkRequests, pendingRequests,
                 excludedResourceTypes, excludedPatterns, tabState, extVars, attachLog, pendingBody,
                 netLog, protoLog>>
  /\ UNCHANGED <<bridgeVars, inflight, aggVars, contentVars,
                 nextUid, budget, unsent, delivered>>

\* chrome.debugger.detach of call c rejects, the debugger being detached
\* already: the empty catch, isCapturing as it was.
DetachRejected(c) ==
  /\ c \in captureCalls
  /\ c.pc = "detach"
  /\ debuggerState[c.tabId] = "detached"
  /\ captureCalls' = captureCalls \ {c}
  /\ lastReply' = [success |-> TRUE]
  /\ lastOp' = [op |-> "detachRejected", tabId |-> c.tabId]
  /\ UNCHANGED <<allErrors, allNetworkRequests, pendingRequests, isCapturing,
                 excludedResourceTypes, excludedPatterns, tabState, extVars, debuggerState, attachLog,
                 pendingBody, netLog, protoLog>>
  /\ UNCHANGED <<bridgeVars, inflight, aggVars, contentVars,
                 nextUid, budget, unsent, delivered>>

\* chrome.debugger.attach of call c rejects on a tab without a debugger (the
\* tab is gone, or its page cannot be debugged): the catch logs.
AttachFailed(c) ==
  /\ c \in captureCalls
  /\ c.pc = "attach"
  /\ debuggerState[c.tabId] = "detached"
  /\ captureCalls' = captureCalls \ {c}
  /\ CaptureReturned(c.via, c.requestId)
  /\ lastOp' = [op |-> "attachFailed", tabId |-> c.tabId, via |-> c.via,
                requestId |-> c.requestId]
  /\ UNCHANGED <<allErrors, allNetworkRequests, pendingRequests, isCapturing,
                 excludedResourceTypes, excludedPatterns, tabState, extVars, debuggerState, attachLog,
                 pendingBody, netLog, protoLog>>
  /\ UNCHANGED <<bridgeVars, aggVars, contentVars, nextUid, budget, unsent, delivered>>

\* Network.enable of call c rejects: the catch logs; the debugger stays as
\* it is, attached when the session still exists.
EnableRejected(c) ==
  /\ c \in captureCalls
  /\ c.pc = "enable"
  /\ captureCalls' = captureCalls \ {c}
  /\ CaptureReturned(c.via, c.requestId)
  /\ lastOp' = [op |-> "enableRejected", tabId |-> c.tabId, via |-> c.via,
                requestId |-> c.requestId]
  /\ UNCHANGED <<allErrors, allNetworkRequests, pendingRequests, isCapturing,
                 excludedResourceTypes, excludedPatterns, tabState, extVars, debuggerState, attachLog,
                 pendingBody, netLog, protoLog>>
  /\ UNCHANGED <<bridgeVars, aggVars, contentVars, nextUid, budget, unsent, delivered>>

\* The user dismisses the debugging bar of an open tab: the browser ends the
\* session and queues chrome.debugger.onDetach.
OutOfBandDetach(tabId) ==
  /\ ~tabState[tabId].closed
  /\ tabState[tabId].pending = {}
  /\ debuggerState[tabId] # "detached"
  /\ debuggerState' = [debuggerState EXCEPT ![tabId] = "detached"]
  /\ tabState' = [tabState EXCEPT ![tabId].pending = {"onDetach"}]
  /\ lastOp' = [op |-> "outOfBandDetach", tabId |-> tabId]
  /\ UNCHANGED <<allErrors, allNetworkRequests, pendingRequests, isCapturing,
                 excludedResourceTypes, excludedPatterns, captureCalls, attachLog,
                 pendingBody, lastReply, netLog, protoLog>>
  /\ UNCHANGED <<bridgeVars, inflight, aggVars, contentVars, extVars,
                 nextUid, budget, unsent, delivered>>

\* No event of the tab's debugger session waits for its listener: the
\* result of a debugger command is reported after the events before it.
SessionIdle(tabId) == tabState[tabId].pending \cap {"onDetach", "onEvent"} = {}

InitSession == InitCapture

NextSession ==
  \/ StartCapture("t1", "runtime", "none")
  \/ StopCapture("t1")
  \/ \E c \in captureCalls :
       SessionIdle(c.tabId) /\ ~tabState[c.tabId].closed /\ AttachResolved(c)
  \/ \E c \in captureCalls : SessionIdle(c.tabId) /\ AttachRejected(c)
  \/ \E c \in captureCalls : SessionIdle(c.tabId) /\ AttachFailed(c)
  \/ \E c \in captureCalls : SessionIdle(c.tabId) /\ EnableResolved(c)
  \/ \E c \in captureCalls : SessionIdle(c.tabId) /\ EnableRejected(c)
  \/ \E c \in captureCalls : SessionIdle(c.tabId) /\ DetachResolved(c)
  \/ \E c \in captureCalls : SessionIdle(c.tabId) /\ DetachRejected(c)
  \/ OutOfBandDetach("t1")
  \/ \E late \in BOOLEAN : TabClosed("t1", late)
  \/ TabRemoved("t1")
  \/ DebuggerDetached("t1")
  \/ LateDebuggerEvent("t1")

SpecSession == InitSession /\ [][NextSession]_vars

\* The debugger is attached to the tab with network events enabled.
NetworkEnabled(tabId) == debuggerState[tabId] = "enabled"

\* C30 as stated: in every reachable state and for every tab, isCapturing
\* is true exactly when the debugger is attached to the tab with network
\* events enabled.
C30_CapturingIffEnabled ==
  \A t \in Tabs : MapGetOr(isCapturing, t, FALSE) <=> NetworkEnabled(t)

\* C30, amended: for every tab whose debugger session has no detach event
\* waiting for the onDetach listener, isCapturing is true exactly when the
\* debugger is attached to the tab with network events enabled.
C30_CapturingIffEnabledWhenIdle ==
  \A t \in Tabs :
    "onDetach" \notin tabState[t].pending =>
      (MapGetOr(isCapturing, t, FALSE) <=> NetworkEnabled(t))

\* A stop was waiting for chrome.debugger.detach when the user dismissed the
\* debugging bar of the open tab: the onDetach listener ran, then the detach
\* was rejected.
C30_Witness ==
  /\ lastOp.op = "detachRejected"
  /\ ~tabState["t1"].closed
  /\ MapHas(isCapturing, "t1")
  /\ ~isCapturing["t1"]
  /\ ~NetworkEnabled("t1")

\* C31: whenever a socket to the aggregator is open, wsConnection refers to
\* an open socket, so that sendToBridge sends and GET_BRIDGE_STATUS reports
\* connected; the close event of a replaced socket does not clear the
\* reference to its successor.
C31_OpenSocketReferenced ==
  (\E s \in SocketIds : sockets[s].readyState = "OPEN") => BridgeOpen

\* C32: pendingRequests holds no entry for a request whose lifecycle has
\* ended: the entry is gone once the response or the failure of the request
\* has been handled, and no entry is left when the tab has started to load
\* another page (the only tab of SpecNet is t1).
C32_PendingSelfPruning ==
  /\ lastOp.op \in {"responseReceived", "loadingFailed"} =>
       ~MapHas(pendingRequests, lastOp.id)
  /\ lastOp.op = "tabLoading" => pendingRequests = EmptyMap

(***************************************************************************)
(* One page-level occurrence seen by both capture scripts.                 *)
(***************************************************************************)
\* What the page threw or rejected with: an uncaught exception, a rejection
\* with an Error, with a string, with a plain object, or with no reason.
OccurrenceKinds == {"exception", "rejectError", "rejectString", "rejectObject",
                    "rejectNothing"}
\* 'Unhandled Promise Rejection' and '[object Object]' as character codes.
RejectionText == <<85, 110, 104, 97, 110, 100, 108, 101, 100, 32, 80, 114, 111,
                   109, 105, 115, 101, 32, 82, 101, 106, 101, 99, 116, 105, 111, 110>>
ObjectObjectText == <<91, 111, 98, 106, 101, 99, 116, 32, 79, 98, 106, 101, 99, 116, 93>>

\* The message of inject.js's listeners (inject.js:74-99): event.message, or
\* name: message of an Error, or String(event.reason).
InjectOccurrenceMessage(kind) ==
  IF kind \in {"exception", "rejectError", "rejectString"} THEN MsgShort
  ELSE IF kind = "rejectObject" THEN ObjectObjectText
  ELSE RejectionText

\* The message of content.js's listeners (content.js:297-334): event.message,
\* or name: message of an Error, the string itself, or JSON.stringify(reason).
ContentOccurrenceMessage(kind) ==
  IF kind \in {"exception", "rejectError", "rejectString"} THEN MsgShort
  ELSE IF kind = "rejectObject" THEN ObjectText
  ELSE RejectionText

OccurrenceType(kind) == IF kind = "exception" THEN "error" ELSE "promise"

\* The browser dispatches one 'error' or 'unhandledrejection' event to the
\* window: the listener of content.js calls addError, the listener of
\* inject.js calls captureError, which pushes to the early buffer and posts
\* the event to the content script.
PageOccurrence(kind) ==
  /\ budget > 0
  /\ budget' = budget - 1
  /\ LET own == [type |-> OccurrenceType(kind), message |-> ContentOccurrenceMessage(kind)]
         relayed == [type |-> OccurrenceType(kind), message |-> InjectOccurrenceMessage(kind)]
     IN /\ errors' = AddedTo(errors, own, nextUid)
        /\ captureLog' = LoggedTo(captureLog, errors, own, nextUid)
        /\ earlyErrors' = EarlyPush(earlyErrors, [data |-> relayed, uid |-> nextUid])
        /\ posted' = Append(posted, [data |-> relayed, uid |-> nextUid])
        /\ lastOp' = [op |-> "occurrence", kind |-> kind, uid |-> nextUid]
  /\ nextUid' = nextUid + 1
  /\ UNCHANGED <<now, ticksLeft, contentReply, importTimers, earlyVisible, pageWorld, isolatedWorld>>
  /\ UNCHANGED <<bgVars, extVars, bridgeVars, inflight, aggVars, unsent, delivered>>

\* Time passes only while no posted message is waiting: every relay arrives
\* within the deduplication window of the listener's own call.
NextOccurrence ==
  \/ \E k \in OccurrenceKinds : PageOccurrence(k)
  \/ PostedReceived
  \/ importEarlyErrors
  \/ posted = <<>> /\ \E d \in TickDeltas : Tick(d)

SpecOccurrence == InitEarly /\ [][NextOccurrence]_vars

\* Number of entries of the content script's buffer that stem from occurrence u.
EntriesOf(u) == Cardinality({i \in 1..Len(errors) : errors[i].uid = u})

\* C33: one page-level occurrence observed by both scripts leaves at most one
\* entry in the Instrumentation Agent's buffer.
C33_OneEntryPerOccurrence ==
  \A u \in 1..(nextUid - 1) : EntriesOf(u) <= 1

(***************************************************************************)
(* The bridge command clear next to the content script's own buffer.       *)
(***************************************************************************)
\* The content script of tab t1 captures errors and reports them to the
\* service worker; the bridge sends clear; the popup asks the content script
\* for its errors or clears them (popup.js:418-420).
NextBridgeClear ==
  \/ \E m \in {MsgShort, MsgLongA} : addError("error", m)
  \/ ErrorCaptured("t1", "TypeError: x.map is not a function")
  \/ \E t \in Tabs : CommandWithTab("clear", "q1", t)
  \/ ContentMessage("GET_ERRORS")
  \/ ContentMessage("CLEAR_ERRORS")

SpecBridgeClear == InitCommands /\ [][NextBridgeClear]_vars

\* C34: right after a clear command for tab t1, neither the service worker
\* nor the content script of t1 holds an error, and a GET_ERRORS query that
\* follows returns none.
C34_ClearEmptiesBoth ==
  [][(lastOp.op = "clear" /\ lastOp.tabId = "t1") =>
       /\ ~MapHas(allErrors, "t1")
       /\ errors = <<>>
       /\ ContentMessage("GET_ERRORS") => contentReply'.errors = <<>>]_vars

(***************************************************************************)
(* The early buffer at its cap.                                            *)
(***************************************************************************)
\* n events captured by inject.js, numbered 1..n.
EarlyFill(n) == [i \in 1..n |-> [data |-> [type |-> "error", message |-> MsgShort],
                                 uid |-> i]]
EarlyFillSizes == {0, EARLY_MAX - 1, EARLY_MAX}

\* inject.js has captured n events before the content script's timers and
\* listener run; the content script runs in its own world and does not see
\* the page's array.  No 'message' listener runs in NextEarlyCap, so posted
\* lists the postMessage calls of captureError, one per capture, in order.
InitEarlyCap ==
  /\ InitBg /\ InitBridge /\ reachable = TRUE /\ InitAgg
  /\ errors = <<>>
  /\ now = 0
  /\ ticksLeft = MaxTicks
  /\ contentReply = Undefined
  /\ captureLog = <<>>
  /\ importTimers = 2
  /\ InitWorlds
  /\ earlyVisible = FALSE
  /\ \E n \in EarlyFillSizes :
       /\ earlyErrors = EarlyFill(n)
       /\ posted = EarlyFill(n)
       /\ nextUid = n + 1
  /\ budget = MaxCaptures
  /\ unsent = {}
  /\ delivered = <<>>
  /\ lastOp = [op |-> "start"]

NextEarlyCap ==
  \/ \E m \in ConsoleMethods, k \in ArgKinds, t \in ConsoleTexts, r \in BOOLEAN :
       PageConsole(m, k, t, r)
  \/ \E k \in OccurrenceKinds : PageOccurrence(k)
  \/ importEarlyErrors

SpecEarlyCap == InitEarlyCap /\ [][NextEarlyCap]_vars

\* C35: the early buffer never holds more than 50 events; it holds every
\* capture while there are at most 50, and the 50 most recent captures in
\* capture order once there are more.
C35_EarlyBoundedRecent ==
  /\ Len(earlyErrors) <= EARLY_MAX
  /\ earlyErrors = IF Len(posted) > EARLY_MAX
                   THEN SubSeq(posted, Len(posted) - EARLY_MAX + 1, Len(posted))
                   ELSE posted

\* A capture has pushed the 51st or a later event and the oldest one is gone.
C35_Witness ==
  /\ lastOp.op \in {"console", "occurrence"}
  /\ Len(posted) > EARLY_MAX
  /\ Len(earlyErrors) = EARLY_MAX
  /\ earlyErrors[EARLY_MAX] = posted[Len(posted)]
  /\ earlyErrors[1] # posted[1]

(***************************************************************************)
(* cleanStackTrace (content.js:105-143).  A line of a stack is known by    *)
(* what the patterns make of it: "internal" matches one of                 *)
(* REMOVE_LINE_PATTERNS; "frame" is a line that, after the junk patterns,  *)
(* matches at func (file:line:col); "text" is any other line with text,    *)
(* "webpack" such a line that contains 'webpack', "blank" an empty one.    *)
(* A file is the sequence of the segments of its path.                     *)
(***************************************************************************)
MaxStackLines == 3
STACK_DEPTH == 10
StackFiles == {<<"app", "utils", "index.js">>, <<"lib", "utils", "index.js">>,
               <<"app", "page.js">>}
NoFile == <<>>
StackLines ==
  {[kind |-> "frame", file |-> f] : f \in StackFiles}
  \cup {[kind |-> "internal", file |-> <<"app", "page.js">>]}
  \cup {[kind |-> k, file |-> NoFile] : k \in {"text", "webpack", "blank"}}

\* file.split('/').slice(-2).join('/')
ShortFile(file) ==
  IF Len(file) <= 2 THEN file ELSE SubSeq(file, Len(file) - 1, Len(file))

\* The loop over the lines from line i on.  A line pushed to cleanedLines
\* is written with the index of the line it was made from.
RECURSIVE StackLoop(_, _, _, _)
StackLoop(lines, i, cleanedLines, lastFile) ==
  IF i > Len(lines) THEN cleanedLines
  ELSE LET line == lines[i]
       IN IF line.kind = "internal"
          THEN StackLoop(lines, i + 1, cleanedLines, lastFile)
          ELSE IF line.kind = "frame"
          THEN IF ShortFile(line.file) # lastFile
               THEN StackLoop(lines, i + 1,
                              Append(cleanedLines, [from |-> i, kind |-> "frame",
                                                    file |-> ShortFile(line.file)]),
                              ShortFile(line.file))
               ELSE StackLoop(lines, i + 1, cleanedLines, lastFile)
          ELSE IF line.kind = "text"
          THEN StackLoop(lines, i + 1,
                         Append(cleanedLines, [from |-> i, kind |-> "text",
                                               file |-> NoFile]),
                         lastFile)
          ELSE StackLoop(lines, i + 1, cleanedLines, lastFile)

\* cleanedLines.slice(0, 10)
cleanStackTrace(lines) ==
  LET cleanedLines == StackLoop(lines, 1, <<>>, NoFile)
  IN SubSeq(cleanedLines, 1, IF Len(cleanedLines) < STACK_DEPTH THEN Len(cleanedLines)
                             ELSE STACK_DEPTH)

\* The stack of an error at hand: empty, or nine lines that are all kept.
StackPrefill ==
  [i \in 1..(STACK_DEPTH - 1) |->
     IF i = 1 THEN [kind |-> "text", file |-> NoFile]
     ELSE [kind |-> "frame",
           file |-> IF i % 2 = 0 THEN <<"app", "utils", "index.js">>
                    ELSE <<"app", "page.js">>]]

InitStack ==
  /\ InitBg /\ InitBridge /\ reachable = TRUE /\ InitAgg /\ InitContent
  /\ nextUid = 1
  /\ budget = MaxStackLines
  /\ unsent = {}
  /\ delivered = <<>>
  /\ \E s \in {<<>>, StackPrefill} : lastOp = [op |-> "stack", lines |-> s]

\* The stack has one more line.
StackLine(line) ==
  /\ lastOp.op = "stack"
  /\ budget > 0
  /\ budget' = budget - 1
  /\ lastOp' = [op |-> "stack", lines |-> Append(lastOp.lines, line)]
  /\ UNCHANGED <<bgVars, extVars, bridgeVars, inflight, aggVars, contentVars,
                 nextUid, unsent, delivered>>

\* formatError cleans the stack of the error (content.js:179-183).
ApplyCleanStack ==
  /\ lastOp.op = "stack"
  /\ lastOp' = [op |-> "cleanedStack", lines |-> lastOp.lines,
                cleaned |-> cleanStackTrace(lastOp.lines)]
  /\ UNCHANGED <<bgVars, extVars, bridgeVars, inflight, aggVars, contentVars,
                 nextUid, budget, unsent, delivered>>

NextStack ==
  \/ \E l \in StackLines : StackLine(l)
  \/ ApplyCleanStack

SpecStack == InitStack /\ [][NextStack]_vars

\* Line i of the stack is a parsed frame and opens a run of frames of one
\* source file: the parsed frame before it, if any, is of another file.
FirstOfRun(lines, i) ==
  /\ lines[i].kind = "frame"
  /\ \A j \in 1..(i - 1) :
       (lines[j].kind = "frame" /\ \A k \in (j + 1)..(i - 1) : lines[k].kind # "frame")
         => lines[j].file # lines[i].file
KeptFrom(cleaned, i) == \E k \in 1..Len(cleaned) : cleaned[k].from = i

\* C36: a cleaned stack has at most 10 lines; of consecutive parsed frames of
\* one source file the first is kept (unless the 10 lines are full) and the
\* others are not; a line of the internal machinery leaves nothing.
C36_CleanedStack ==
  lastOp.op = "cleanedStack" =>
    LET lines == lastOp.lines
        cleaned == lastOp.cleaned
    IN /\ Len(cleaned) <= STACK_DEPTH
       /\ \A i \in 1..Len(lines) :
            /\ lines[i].kind = "internal" => ~KeptFrom(cleaned, i)
            /\ lines[i].kind = "frame" =>
                 IF FirstOfRun(lines, i)
                 THEN KeptFrom(cleaned, i) \/ Len(cleaned) = STACK_DEPTH
                 ELSE ~KeptFrom(cleaned, i)

(***************************************************************************)
(* The framework tag of the events that addError handles.                  *)
(***************************************************************************)
\* 'render hook'
TagRenderHook == <<114, 101, 110, 100, 101, 114, 32, 104, 111, 111, 107>>
\* 'Hydration useState'
TagHydrationCaps == <<72, 121, 100, 114, 97, 116, 105, 111, 110, 32, 117, 115, 101, 83, 116, 97, 116, 101>>
\* 'next/ element'
TagNextElement == <<110, 101, 120, 116, 47, 32, 101, 108, 101, 109, 101, 110, 116>>
\* 'middleware'
TagMiddleware == <<109, 105, 100, 100, 108, 101, 119, 97, 114, 101>>
\* 'server client'
TagServerClient == <<115, 101, 114, 118, 101, 114, 32, 99, 108, 105, 101, 110, 116>>
\* 'server\nclient'
TagServerNewlineClient == <<115, 101, 114, 118, 101, 114, 10, 99, 108, 105, 101, 110, 116>>
\* Two messages that agree on their first 100 characters: 100 times "a",
\* then "hook" or "jsx".
TagLongHook == [i \in 1..(MSG_KEY_LEN + 4) |->
                  IF i <= MSG_KEY_LEN THEN 97 ELSE <<104, 111, 111, 107>>[i - MSG_KEY_LEN]]
TagLongJsx == [i \in 1..(MSG_KEY_LEN + 3) |->
                 IF i <= MSG_KEY_LEN THEN 97 ELSE <<106, 115, 120>>[i - MSG_KEY_LEN]]
TagMessages == {TagRenderHook, TagHydrationCaps, TagNextElement, TagMiddleware,
                TagServerClient, TagServerNewlineClient, TagLongHook, TagLongJsx,
                MsgShort}

NextTags ==
  \/ \E m \in TagMessages : addError("error", m)
  \/ Tick(DEDUP_WINDOW_MS - 1)

\* The content script has started and has captured nothing yet.
InitTags ==
  /\ InitBg /\ InitBridge /\ reachable = TRUE /\ InitAgg /\ InitContent
  /\ nextUid = 1
  /\ budget = MaxCaptures
  /\ unsent = {}
  /\ delivered = <<>>
  /\ lastOp = [op |-> "start"]

SpecTags == InitTags /\ [][NextTags]_vars

\* The topics whose pattern matches the message, as positions in the order.
MatchingTopics(message) ==
  {k \in 1..Len(TopicOrder) : PatternTest(TopicOrder[k], message)}

\* C37: the tag of the event that addError has just buffered is the first
\* topic in the order hydration, hooks, render, nextjs whose pattern matches
\* its message, and null when none matches; addError has retained the event
\* of its last call exactly when no other buffered event has the same first
\* 100 characters within the last second, whatever the tags are.
C37_TagFirstMatchAdvisory ==
  lastOp.op = "addError" =>
    LET call == captureLog[Len(captureLog)]
        retained == \E i \in 1..Len(errors) : errors[i].uid = call.uid
        same == {i \in 1..Len(errors) :
                   /\ errors[i].uid # call.uid
                   /\ MsgKey(errors[i].raw.message) = call.key
                   /\ now - errors[i].timestamp < DEDUP_WINDOW_MS}
    IN /\ call.uid = lastOp.uid
       /\ retained <=> same = {}
       /\ retained =>
            LET added == errors[Len(errors)]
                matching == MatchingTopics(added.raw.message)
            IN /\ added.uid = call.uid
               /\ IF matching = {} THEN added.reactType = NoTag
                  ELSE /\ added.reactType \in {TopicOrder[k] : k \in matching}
                       /\ \A k \in matching :
                            TopicOrder[k] # added.reactType =>
                              \E j \in matching :
                                 j < k /\ TopicOrder[j] = added.reactType

\* An event that matches two topics is buffered with the earlier one, and an
\* event that matches none has just been retained.
C37_Witness ==
  /\ lastOp.op = "addError" /\ ~lastOp.dupe
  /\ errors # <<>>
  /\ errors[Len(errors)].uid = lastOp.uid
  /\ errors[Len(errors)].reactType = NoTag
  /\ \E i \in 1..Len(errors) :
       /\ errors[i].reactType = "hooks"
       /\ PatternTest("render", errors[i].raw.message)

(***************************************************************************)
(* VS Code extension (part_002): startBridgeBackground, the 'exit'         *)
(* listener it registers, and stopBridgeBackground.                        *)
(***************************************************************************)
StartSources == {"autoStart", "command", "quickPick"}
Alive(p) == processes[p].state \in {"starting", "listening"}
LiveProcesses == {p \in Pids : Alive(p)}

\* checkConsoleBridge(port): GET /data answers 200 when a process listens.
checkConsoleBridge == \E p \in Pids : processes[p].state = "listening"

\* startBridgeBackground is called (the auto-start timer of activate, the
\* command aether-mcp.startBridge, the quick-pick action) and waits for
\* checkConsoleBridge.  The auto-start timer fires once.
StartCalled(via) ==
  /\ budget > 0
  /\ via = "autoStart" => \A c \in startCalls : c.via # "autoStart"
  /\ via = "autoStart" => lastOp.op = "start"
  /\ budget' = budget - 1
  /\ startCalls' = startCalls \cup {[id |-> nextUid, via |-> via]}
  /\ nextUid' = nextUid + 1
  /\ lastOp' = [op |-> "startCalled", via |-> via]
  /\ UNCHANGED <<bridgeProcess, processes>>
  /\ UNCHANGED <<bgVars, bridgeVars, inflight, aggVars, contentVars, unsent, delivered>>

\* The check of call c resolves and the call runs on: it returns when a
\* bridge answers or when bridgeProcess is set and not killed, and spawns a
\* process otherwise.  What follows the spawn (the listeners, the wait of
\* 2 s and the second check) changes no state.
CheckResolved(c) ==
  /\ c \in startCalls
  /\ LET isRunning == checkConsoleBridge
         exists == bridgeProcess # NoProcess /\ ~processes[bridgeProcess].killed
         spawns == ~isRunning /\ ~exists
         unborn == {p \in Pids : processes[p].state = "unborn"}
         pid == CHOOSE p \in unborn : \A q \in unborn : p <= q
     IN /\ spawns => unborn # {}
        /\ bridgeProcess' = IF spawns THEN pid ELSE bridgeProcess
        /\ processes' = IF spawns
                        THEN [processes EXCEPT ![pid] = [state |-> "starting",
                                                         killed |-> FALSE]]
                        ELSE processes
        /\ lastOp' = [op |-> "startBridgeBackground", via |-> c.via,
                      spawned |-> IF spawns THEN pid ELSE NoProcess,
                      live |-> LiveProcesses]
  /\ startCalls' = startCalls \ {c}
  /\ UNCHANGED <<bgVars, bridgeVars, inflight, aggVars, contentVars,
                 nextUid, budget, unsent, delivered>>

\* The spawned bridge binds its ports; it cannot while another one listens.
ProcessListens(p) ==
  /\ processes[p].state = "starting"
  /\ ~checkConsoleBridge
  /\ processes' = [processes EXCEPT ![p].state = "listening"]
  /\ lastOp' = [op |-> "listening", pid |-> p]
  /\ UNCHANGED <<bridgeProcess, startCalls>>
  /\ UNCHANGED <<bgVars, bridgeVars, inflight, aggVars, contentVars,
                 nextUid, budget, unsent, delivered>>

\* The process ends on its own (EADDRINUSE, a crash, a signal from outside).
ProcessExits(p) ==
  /\ Alive(p)
  /\ processes' = [processes EXCEPT ![p].state = "exited"]
  /\ lastOp' = [op |-> "processExits", pid |-> p]
  /\ UNCHANGED <<bridgeProcess, startCalls>>
  /\ UNCHANGED <<bgVars, bridgeVars, inflight, aggVars, contentVars,
                 nextUid, budget, unsent, delivered>>

\* bridgeProcess.on("exit", ...) of process p: bridgeProcess = null.
ExitListener(p) == NoProcess

\* The 'exit' event of process p is delivered.
ExitEvent(p) ==
  /\ processes[p].state = "exited"
  /\ processes' = [processes EXCEPT ![p].state = "done"]
  /\ bridgeProcess' = ExitListener(p)
  /\ lastOp' = [op |-> "exit", pid |-> p]
  /\ UNCHANGED startCalls
  /\ UNCHANGED <<bgVars, bridgeVars, inflight, aggVars, contentVars,
                 nextUid, budget, unsent, delivered>>

\* stopBridgeBackground: kill() ends the process at once; its 'exit' event
\* is delivered later.
stopBridgeBackground ==
  /\ LET stops == bridgeProcess # NoProcess /\ ~processes[bridgeProcess].killed
     IN /\ processes' =
             IF stops
             THEN [processes EXCEPT ![bridgeProcess] =
                     [state |-> IF Alive(bridgeProcess) THEN "exited" ELSE @.state,
                      killed |-> TRUE]]
             ELSE processes
        /\ bridgeProcess' = IF stops THEN NoProcess ELSE bridgeProcess
        /\ lastOp' = [op |-> "stopBridgeBackground", stopped |-> stops]
  /\ UNCHANGED startCalls
  /\ UNCHANGED <<bgVars, bridgeVars, inflight, aggVars, contentVars,
                 nextUid, budget, unsent, delivered>>

InitExtensionUp ==
  /\ InitBg /\ InitBridge /\ reachable = FALSE /\ InitAgg /\ InitContent
  /\ nextUid = 1
  /\ budget = MaxStarts
  /\ unsent = {}
  /\ delivered = <<>>
  /\ lastOp = [op |-> "start"]

NextExtension ==
  \/ \E via \in StartSources : StartCalled(via)
  \/ \E c \in startCalls : CheckResolved(c)
  \/ \E p \in Pids : ProcessListens(p)
  \/ \E p \in Pids : ProcessExits(p)
  \/ \E p \in Pids : ExitEvent(p)
  \/ stopBridgeBackground

SpecExtension == InitExtensionUp /\ [][NextExtension]_vars

\* C38: at most one spawned process is alive, and while one is alive
\* bridgeProcess names it.
C38_OneLiveProcess ==
  /\ Cardinality(LiveProcesses) <= 1
  /\ LiveProcesses # {} => bridgeProcess \in LiveProcesses

(***************************************************************************)
(* The body of a retained response: getResponseBody and truncateBody.      *)
(***************************************************************************)
NextBody ==
  \/ OnResponseReceived("t1", "r1", "XHR", UrlApi, 200)
  \/ \E uid \in pendingBody, r \in BodyResults : GetResponseBodyResolved(uid, r)
  \/ \E uid \in pendingBody : GetResponseBodyRejected(uid)

SpecBody == InitNetEmpty /\ [][NextBody]_vars

\* The body fields of the buffered response events made from the object uid.
StoredBodies(uid) ==
  UNION {{allNetworkRequests[t][i].body :
            i \in {k \in 1..Len(allNetworkRequests[t]) :
                     /\ allNetworkRequests[t][k].type = "response"
                     /\ allNetworkRequests[t][k].uid = uid}} :
         t \in DOMAIN allNetworkRequests}

\* The first 5000 characters of the text, then the marker.
Truncated(text) == Str(SubSeq(text, 1, BODY_LIMIT) \o TruncationMarker)

\* C39 as stated: a fetched body longer than 5000 characters is stored as
\* its first 5000 characters and the marker, any shorter body is stored as
\* it is, and a failed fetch leaves the response buffered without a body.
C39_BodyTruncatedOrUnchanged ==
  lastOp.op = "getResponseBody" =>
    /\ StoredBodies(lastOp.uid) # {}
    /\ \A b \in StoredBodies(lastOp.uid) :
         IF ~lastOp.ok THEN b = Undefined
         ELSE IF Len(lastOp.result.body.text) > BODY_LIMIT
         THEN b = Truncated(lastOp.result.body.text)
         ELSE b = lastOp.result.body

\* C39, amended: a text body longer than 5000 characters is stored as its
\* first 5000 characters and the marker, a non-empty text body of at most
\* 5000 characters is stored as it is, an empty body is stored as null, a
\* base64-encoded body is stored as a note of its length, and a failed
\* fetch leaves the response buffered without a body.
C39_TextBodyTruncatedOrUnchanged ==
  lastOp.op = "getResponseBody" =>
    /\ StoredBodies(lastOp.uid) # {}
    /\ \A b \in StoredBodies(lastOp.uid) :
         IF ~lastOp.ok THEN b = Undefined
         ELSE LET text == lastOp.result.body.text
              IN IF lastOp.result.base64Encoded THEN b = [base64Chars |-> Len(text)]
                 ELSE IF text = <<>> THEN b = Null
                 ELSE IF Len(text) > BODY_LIMIT THEN b = Truncated(text)
                 ELSE b = lastOp.result.body

\* A body of 5001 characters has been fetched for a buffered response.
C39_Witness ==
  /\ lastOp.op = "getResponseBody" /\ lastOp.ok
  /\ ~lastOp.result.base64Encoded
  /\ Len(lastOp.result.body.text) = BODY_LIMIT + 1
  /\ \E b \in StoredBodies(lastOp.uid) :
       Len(b.text) = BODY_LIMIT + Len(TruncationMarker)

(***************************************************************************)
(* Repeated loading of content.js and inject.js into the same worlds       *)
(* (content.js:7-20, inject.js:6-13).                                      *)
(***************************************************************************)
\* Variant of injectJs without the flag test of inject.js:7.
injectJsUnguarded(world) ==
  [world EXCEPT !.injected = TRUE, !.wrappers = @ + 1, !.runs = @ + 1]

\* One execution of inject.js in the page: it returns at the flag, or sets
\* the flag and replaces console.error by a wrapper of the function it finds.
injectJs(world) ==
  IF world.injected
  THEN [world EXCEPT !.runs = @ + 1]
  ELSE [world EXCEPT !.injected = TRUE, !.wrappers = @ + 1, !.runs = @ + 1]

\* One execution of content.js in the content script's world: it returns at
\* the flag, or sets the flag and registers its 'message' listener.
contentJs(world) ==
  IF world.injected
  THEN [world EXCEPT !.runs = @ + 1]
  ELSE [world EXCEPT !.injected = TRUE, !.listeners = @ + 1, !.runs = @ + 1]

\* content.js is executed in a frame: past the flag it appends the script
\* element for inject.js (injectPageScript, content.js:11-20) and sets both
\* import timers (content.js:444-445).
ContentScriptRuns ==
  /\ isolatedWorld.runs < MaxLoads
  /\ isolatedWorld' = contentJs(isolatedWorld)
  /\ IF isolatedWorld.injected
     THEN UNCHANGED <<pageWorld, importTimers>>
     ELSE /\ pageWorld' = [pageWorld EXCEPT !.scripts = @ + 1]
          /\ importTimers' = 2
  /\ lastOp' = [op |-> "content.js", returned |-> isolatedWorld.injected]
  /\ UNCHANGED <<errors, now, ticksLeft, contentReply, captureLog, earlyVisible, earlyErrors,
                 posted>>
  /\ UNCHANGED <<bgVars, extVars, bridgeVars, inflight, aggVars, nextUid, budget, unsent, delivered>>

\* An appended script element has loaded: inject.js runs in the page.  The
\* array of window.__CLAUDE_EARLY_ERRORS__ is kept if there is one
\* (inject.js:11).
InjectScriptRuns ==
  /\ pageWorld.scripts > 0
  /\ pageWorld' = [injectJs(pageWorld) EXCEPT !.scripts = @ - 1]
  /\ lastOp' = [op |-> "inject.js", returned |-> pageWorld.injected]
  /\ UNCHANGED <<errors, now, ticksLeft, contentReply, captureLog, importTimers, earlyVisible,
                 earlyErrors, posted, isolatedWorld>>
  /\ UNCHANGED <<bgVars, extVars, bridgeVars, inflight, aggVars, nextUid, budget, unsent, delivered>>

\* One more script element for inject.js is appended to the page.
ScriptAppendedAgain ==
  /\ pageWorld.runs + pageWorld.scripts < MaxLoads
  /\ pageWorld' = [pageWorld EXCEPT !.scripts = @ + 1]
  /\ lastOp' = [op |-> "script", returned |-> FALSE]
  /\ UNCHANGED <<errors, now, ticksLeft, contentReply, captureLog, importTimers, earlyVisible,
                 earlyErrors, posted, isolatedWorld>>
  /\ UNCHANGED <<bgVars, extVars, bridgeVars, inflight, aggVars, nextUid, budget, unsent, delivered>>

\* A page in which neither script has run; the content script's world has
\* its own window, where window.__CLAUDE_EARLY_ERRORS__ is not set.
InitInject ==
  /\ InitBg /\ InitBridge /\ reachable = TRUE /\ InitAgg
  /\ errors = <<>>
  /\ now = 0
  /\ ticksLeft = MaxTicks
  /\ contentReply = Undefined
  /\ captureLog = <<>>
  /\ importTimers = 0
  /\ earlyVisible = FALSE
  /\ earlyErrors = <<>>
  /\ posted = <<>>
  /\ pageWorld = FreshPage
  /\ isolatedWorld = FreshIsolated
  /\ nextUid = 1
  /\ budget = MaxCaptures
  /\ unsent = {}
  /\ delivered = <<>>
  /\ lastOp = [op |-> "start"]

NextInject ==
  \/ ContentScriptRuns
  \/ InjectScriptRuns
  \/ ScriptAppendedAgain
  \/ PageConsole("error", "string", MsgShort, FALSE)
  \/ PostedReceived
  \/ importEarlyErrors
  \/ Tick(DEDUP_WINDOW_MS - 1)

SpecInject == InitInject /\ [][NextInject]_vars

\* The entries of the early buffer that one call made.
EarlyEntriesOf(u) == Cardinality({i \in 1..Len(earlyErrors) : earlyErrors[i].uid = u})

\* C40: however often the two scripts are loaded into their worlds, there is
\* at most one wrapper in front of console.error and at most one 'message'
\* listener, and one console.error call has at most one entry in the early
\* buffer and at most one in the Instrumentation Agent's buffer.
C40_InjectedOnce ==
  /\ pageWorld.wrappers <= 1
  /\ isolatedWorld.listeners <= 1
  /\ \A u \in 1..(nextUid - 1) : EarlyEntriesOf(u) <= 1 /\ EntriesOf(u) <= 1

\* Both scripts have run a second time, a console.error call follows and is
\* in the early buffer once, and the call before it is in the agent's buffer
\* once.
C40_Witness ==
  /\ lastOp.op = "console"
  /\ pageWorld.runs >= 2 /\ isolatedWorld.runs >= 2
  /\ pageWorld.wrappers = 1 /\ isolatedWorld.listeners = 1
  /\ nextUid = 3
  /\ EarlyEntriesOf(2) = 1
  /\ EntriesOf(1) = 1 /\ EarlyEntriesOf(1) = 1

====
